---- MODULE Spec2Model ----
(***************************************************************************)
(* Model of the Node controller of flux-mongodb-cluster                    *)
(* (src/unnamed/part_001, the controller with split-brain handling).       *)
(*                                                                         *)
(* Strings of the program (addresses, hostnames, member hosts) are         *)
(* sequences of one-character strings, so that split(':'), replace,        *)
(* startsWith and the default sort() are computed as the code computes     *)
(* them.                                                                   *)
(*                                                                         *)
(* The specifications share the pure operators:                            *)
(*   Spec        one controller beside an initialized engine, with the     *)
(*               registry, the peers and the engine's elections as an      *)
(*               adversarial environment (bootstrap's initialized branch,  *)
(*               the reconciliation loop, split-brain recovery, nuclear    *)
(*               resync);                                                  *)
(*   SpecWide    the same controller beside a registry whose list changes  *)
(*               size between two fetches (up to four peers);              *)
(*   SpecCluster several controllers cold-starting against uninitialized   *)
(*               engines (founder election, waiting, reconciliation by     *)
(*               the founder); SpecClusterFair adds the scheduling of the  *)
(*               controllers and of the engines' heartbeats.               *)
(***************************************************************************)
EXTENDS Integers, Sequences, FiniteSets, TLC

(***************************************************************************)
(* Bounds of the model.                                                    *)
(***************************************************************************)
\* Replica-set config versions are capped: no reconfigure is modelled once
\* the engine's config version has reached MaxVersion.
MaxVersion == 3
\* The oplog timestamps of the model are Stamp(1) .. Stamp(MaxStamp).
MaxStamp == 3
\* SpecCluster submits at most MaxReconfigs reconfigures.
MaxReconfigs == 3
\* A waiting node of SpecCluster polls MaxPolls times before its wait
\* expires (for (let i = 0; i < 30; i++) in the code).
MaxPolls == 1

(***************************************************************************)
(* Program constants.                                                      *)
(***************************************************************************)
StepDownSplitBrain == 60
StepDownStalePrimary == 300

(***************************************************************************)
(* Strings.                                                                *)
(***************************************************************************)
\* UTF-16 code units of the characters that occur, the order sort() and
\* string comparison use.
CharCode(c) ==
  CASE c = "-" -> 45 [] c = "." -> 46
    [] c = "0" -> 48 [] c = "1" -> 49 [] c = "2" -> 50 [] c = "3" -> 51
    [] c = "4" -> 52 [] c = "5" -> 53 [] c = "6" -> 54 [] c = "7" -> 55
    [] c = "8" -> 56 [] c = "9" -> 57 [] c = ":" -> 58
    [] c = "c" -> 99 [] c = "e" -> 101 [] c = "g" -> 103 [] c = "l" -> 108
    [] c = "m" -> 109 [] c = "n" -> 110 [] c = "o" -> 111 [] c = "r" -> 114
    [] c = "s" -> 115 [] c = "t" -> 116 [] c = "u" -> 117
    [] OTHER -> 0

\* The positions at which a and b both have a character and differ.
Differences(a, b) ==
  {i \in 1..Len(a) : i <= Len(b) /\ a[i] # b[i]}

\* a < b as JavaScript compares strings: by the code units at the first
\* difference, a proper prefix being smaller.
StrLess(a, b) ==
  IF Differences(a, b) = {} THEN Len(a) < Len(b)
  ELSE \E k \in Differences(a, b) :
         /\ \A j \in Differences(a, b) : k <= j
         /\ CharCode(a[k]) < CharCode(b[k])

\* s.startsWith(p)
StartsWith(s, p) == Len(p) <= Len(s) /\ SubSeq(s, 1, Len(p)) = p

\* s.indexOf(c) + 1: the first position of c in s, 0 when there is none.
IndexOfChar(s, c) ==
  IF \A i \in 1..Len(s) : s[i] # c THEN 0
  ELSE CHOOSE i \in 1..Len(s) : s[i] = c /\ \A j \in 1..(i - 1) : s[j] # c

\* s.split(':')[0]
SplitColonFirst(s) ==
  IF IndexOfChar(s, ":") = 0 THEN s ELSE SubSeq(s, 1, IndexOfChar(s, ":") - 1)

\* Mutant: the dots are dropped.
ReplaceDotsDropped(s) == SelectSeq(s, LAMBDA c : c # ".")

\* s.replace(/\./g, '-')
ReplaceDots(s) == [i \in 1..Len(s) |-> IF s[i] = "." THEN "-" ELSE s[i]]

RECURSIVE InsertSorted(_, _)
InsertSorted(sorted, x) ==
  IF sorted = <<>> THEN <<x>>
  ELSE IF StrLess(x, Head(sorted)) THEN <<x>> \o sorted
  ELSE <<Head(sorted)>> \o InsertSorted(Tail(sorted), x)

RECURSIVE SortStrings(_)
\* Array.prototype.sort() with the default comparator (a stable sort).
SortStrings(seq) ==
  IF seq = <<>> THEN <<>>
  ELSE InsertSorted(SortStrings(SubSeq(seq, 1, Len(seq) - 1)), seq[Len(seq)])

Range(seq) == {seq[i] : i \in 1..Len(seq)}

MONGO_PORT == <<"2", "7", "0", "1", "7">>

\* `mongo-${ip.replace(/\./g, '-')}.mongo-cluster`
HostnameOf(ip) ==
  <<"m", "o", "n", "g", "o", "-">> \o ReplaceDots(ip)
    \o <<".", "m", "o", "n", "g", "o", "-", "c", "l", "u", "s", "t", "e", "r">>

\* `${hostname}:${MONGO_PORT}`
HostOf(hostname) == hostname \o <<":">> \o MONGO_PORT

(***************************************************************************)
(* Addresses and registry responses of the model.                          *)
(***************************************************************************)
IP1 == <<"1", "0", ".", "0", ".", "0", ".", "1">>
IP2 == <<"1", "0", ".", "0", ".", "0", ".", "2">>
IP3 == <<"1", "0", ".", "0", ".", "0", ".", "3">>
IP4 == <<"1", "0", ".", "0", ".", "0", ".", "4">>
IP5 == <<"1", "0", ".", "0", ".", "0", ".", "5">>

\* The "ip" field of a registry entry may carry a port.
WithPort(ip) == ip \o <<":", "1", "6">>

\* What one GET of FLUX_API_URL can yield: the request or the JSON parse
\* throws ("unreachable"), or a body {status, data: [{ip}, ...]}.
RegistryResponses ==
  { [status |-> "unreachable", data |-> <<>>],
    [status |-> "error",       data |-> <<>>],
    [status |-> "success",     data |-> <<>>],
    [status |-> "success",     data |-> <<IP2>>],
    [status |-> "success",     data |-> <<IP2, WithPort(IP1)>>],
    [status |-> "success",     data |-> <<WithPort(IP3), IP1, IP2>>],
    [status |-> "success",     data |-> <<IP1, WithPort(IP1), IP2>>],
    [status |-> "success",     data |-> <<WithPort(IP3), IP1>>] }

\* A registry that shrinks from five nodes to two.
WideRegistryResponses ==
  { [status |-> "unreachable", data |-> <<>>],
    [status |-> "success",     data |-> <<IP2, WithPort(IP1)>>],
    [status |-> "success",     data |-> <<IP5, IP4, IP3, IP2, IP1>>] }

\* The outage of scenario E: unreachable, an error body, or an empty list.
RegistryDown(resp) == resp.status # "success" \/ resp.data = <<>>

(***************************************************************************)
(* Registry client.                                                        *)
(***************************************************************************)
\* fetchAllIPs: map(ip.split(':')[0]), filter(non-empty), sort(); [] on an
\* error body, an empty list or an exception.
fetchAllIPs(resp) ==
  IF resp.status = "success" /\ Len(resp.data) > 0
  THEN SortStrings(SelectSeq([i \in 1..Len(resp.data) |-> SplitColonFirst(resp.data[i])],
                             LAMBDA ip : ip # <<>>))
  ELSE <<>>

\* fetchPeerIPs: allIPs.filter(ip => ip !== myIP)
fetchPeerIPs(resp, self) == SelectSeq(fetchAllIPs(resp), LAMBDA ip : ip # self)

(***************************************************************************)
(* Replica-set configuration: [version, members: Seq([_id, host])].        *)
(***************************************************************************)
NoConfig == [version |-> 0, members |-> <<>>]

Member(id, host) == [_id |-> id, host |-> host]

RECURSIVE MaxOf(_)
\* Math.max(...ids) of a non-empty list
MaxOf(ids) ==
  IF Len(ids) = 1 THEN ids[1]
  ELSE LET m == MaxOf(Tail(ids)) IN IF ids[1] > m THEN ids[1] ELSE m

MemberIds(members) == [i \in 1..Len(members) |-> members[i]._id]

\* config.members.map(m => m.host.split(':')[0])
currentMembers(config) ==
  [i \in 1..Len(config.members) |-> SplitColonFirst(config.members[i].host)]

\* Mutant: the peers' hostnames are left out of the desired membership.
desiredMembersWithoutPeers(self, peers) ==
  <<HostnameOf(self)>>

\* [myHostname, ...peerIPs.map(ip => hostname of ip)]
desiredMembers(self, peers) ==
  <<HostnameOf(self)>> \o [i \in 1..Len(peers) |-> HostnameOf(peers[i])]

\* desiredMembers.filter(hostname => !currentMembers.includes(hostname))
toAdd(config, self, peers) ==
  SelectSeq(desiredMembers(self, peers),
            LAMBDA h : h \notin Range(currentMembers(config)))

\* Mutant: every current member is a removal.
toRemoveAllCurrent(config, self, peers) == currentMembers(config)

\* currentMembers.filter(h => h !== myHostname && !desiredMembers.includes(h))
toRemove(config, self, peers) ==
  SelectSeq(currentMembers(config),
            LAMBDA h : h # HostnameOf(self)
                       /\ h \notin Range(desiredMembers(self, peers)))

\* The _id given to a member that is pushed onto `members`.
NewMemberId(members) == MaxOf(MemberIds(members)) + 1

RECURSIVE AddMembers(_, _)
\* for (const hostname of toAdd) config.members.push({_id: maxId + 1, host})
AddMembers(members, hostnames) ==
  IF hostnames = <<>> THEN members
  ELSE AddMembers(Append(members, Member(NewMemberId(members), HostOf(Head(hostnames)))),
                  Tail(hostnames))

RECURSIVE FindIndexStartsWith(_, _, _)
\* config.members.findIndex(m => m.host.startsWith(hostname)), 0 for -1
FindIndexStartsWith(members, hostname, i) ==
  IF i > Len(members) THEN 0
  ELSE IF StartsWith(members[i].host, hostname) THEN i
  ELSE FindIndexStartsWith(members, hostname, i + 1)

\* members.splice(index, 1)
Splice(members, index) ==
  SubSeq(members, 1, index - 1) \o SubSeq(members, index + 1, Len(members))

RECURSIVE RemoveMembers(_, _)
\* for (const hostname of toRemove) { findIndex; if (index !== -1) splice }
RemoveMembers(members, hostnames) ==
  IF hostnames = <<>> THEN members
  ELSE LET index == FindIndexStartsWith(members, Head(hostnames), 1)
       IN  RemoveMembers(IF index # 0 THEN Splice(members, index) ELSE members,
                         Tail(hostnames))

\* Mutant: the config is submitted with the version it was read with.
NextVersionKept(version) == version

\* config.version++ (reconcileReplicaSet), config.version + 1 (bootstrap)
NextVersion(version) == version + 1

\* Mutant: the member _ids are recalculated from the positions.
ReconciledConfigRenumbered(config, self, peers) ==
  LET members == RemoveMembers(AddMembers(config.members, toAdd(config, self, peers)),
                               toRemove(config, self, peers))
  IN  [version |-> NextVersion(config.version),
       members |-> [i \in 1..Len(members) |-> Member(i - 1, members[i].host)]]

\* The config reconcileReplicaSet submits for the config it read: members
\* added, members removed, config.version++.
ReconciledConfig(config, self, peers) ==
  [version |-> NextVersion(config.version),
   members |-> RemoveMembers(AddMembers(config.members, toAdd(config, self, peers)),
                             toRemove(config, self, peers))]

\* Mutant: the membership is in sync when the two lists have equal length.
InSyncByCount(config, self, peers) ==
  Len(currentMembers(config)) = Len(desiredMembers(self, peers))

\* toAdd.length === 0 && toRemove.length === 0
InSync(config, self, peers) ==
  toAdd(config, self, peers) = <<>> /\ toRemove(config, self, peers) = <<>>


(***************************************************************************)
(* Peer RPC client: /primary consensus.                                    *)
(***************************************************************************)
\* An answer to one GET /primary: the request throws or times out, the
\* response is not OK, or it is OK with data.primary a host or null (<<>>).
PrimaryAnswer(kind, primary) == [kind |-> kind, primary |-> primary]

\* primaryVotes.set(host, (primaryVotes.get(host) || 0) + 1) on a Map kept
\* as the sequence of its [host, count] entries in insertion order.
VoteFor(votes, host) ==
  IF \E i \in 1..Len(votes) : votes[i].host = host
  THEN [i \in 1..Len(votes) |->
          IF votes[i].host = host
          THEN [host |-> host, count |-> votes[i].count + 1]
          ELSE votes[i]]
  ELSE Append(votes, [host |-> host, count |-> 1])

\* Mutant: data.primary is counted without the test for null.
CountAnswerNoNullTest(votes, answer) ==
  IF answer.kind = "ok" THEN VoteFor(votes, answer.primary) ELSE votes

\* One iteration of the loop over peerIPs in checkPeerPrimaryConsensus.
CountAnswer(votes, answer) ==
  IF answer.kind = "ok" /\ answer.primary # <<>>
  THEN VoteFor(votes, answer.primary)
  ELSE votes

RECURSIVE checkPeerPrimaryConsensus(_, _)
\* primaryVotes after the answers of the peers, in peerIPs order.
checkPeerPrimaryConsensus(votes, answers) ==
  IF answers = <<>> THEN votes
  ELSE checkPeerPrimaryConsensus(CountAnswer(votes, Head(answers)), Tail(answers))

\* reachablePeers: the number of OK responses.
ReachablePeers(answers) == Cardinality({i \in 1..Len(answers) : answers[i].kind = "ok"})

\* Math.floor(totalKnownNodes / 2) + 1
majorityThreshold(totalKnownNodes) == (totalKnownNodes \div 2) + 1

RECURSIVE FirstAtThreshold(_, _, _)
\* for (const [primary, count] of primaryVotes.entries())
\*   if (count >= majorityThreshold) { consensusPrimary = primary; break; }
\* <<>> stands for consensusPrimary === null.
FirstAtThreshold(votes, threshold, i) ==
  IF i > Len(votes) THEN <<>>
  ELSE IF votes[i].count >= threshold THEN votes[i].host
  ELSE FirstAtThreshold(votes, threshold, i + 1)

consensusPrimary(answers, totalKnownNodes) ==
  FirstAtThreshold(checkPeerPrimaryConsensus(<<>>, answers),
                   majorityThreshold(totalKnownNodes), 1)

\* consensusPrimary && consensusPrimary !== `${myHostname}:${MONGO_PORT}`
SplitBrainDetected(answers, totalKnownNodes, self) ==
  /\ consensusPrimary(answers, totalKnownNodes) # <<>>
  /\ consensusPrimary(answers, totalKnownNodes) # HostOf(HostnameOf(self))

(***************************************************************************)
(* Oplog timestamps and findNodeWithLatestData.                            *)
(***************************************************************************)
\* The k-th timestamp <<time, counter>> of the model: <<1,1>>, <<1,2>>,
\* <<2,1>>, <<2,2>>, ...  A missing timestamp (null) is <<>>.
Stamp(k) == <<(k + 1) \div 2, 2 - (k % 2)>>

OplogAnswer(kind, ts) == [kind |-> kind, ts |-> ts]

\* oplogData.set(ip, {time, counter}) on a Map kept as the sequence of its
\* entries in insertion order.
OplogSet(data, ip, ts) ==
  IF \E i \in 1..Len(data) : data[i].ip = ip
  THEN [i \in 1..Len(data) |->
          IF data[i].ip = ip THEN [ip |-> ip, time |-> ts[1], counter |-> ts[2]]
          ELSE data[i]]
  ELSE Append(data, [ip |-> ip, time |-> ts[1], counter |-> ts[2]])

RECURSIVE CollectOplogs(_, _, _)
\* The loop over peerIPs: an OK response with a timestamp sets an entry.
CollectOplogs(data, peers, answers) ==
  IF peers = <<>> THEN data
  ELSE CollectOplogs(
         IF Head(answers).kind = "ok" /\ Head(answers).ts # <<>>
         THEN OplogSet(data, Head(peers), Head(answers).ts)
         ELSE data,
         Tail(peers), Tail(answers))

NoLatest == [found |-> FALSE, ip |-> <<>>, time |-> 0, counter |-> 0]

RECURSIVE PickLatest(_, _, _)
\* The loop over oplogData.entries(), starting from latestTime = 0,
\* latestCounter = 0, latestIP = null.
PickLatest(data, latest, i) ==
  IF i > Len(data) THEN latest
  ELSE PickLatest(data,
         IF \/ data[i].time > latest.time
            \/ (data[i].time = latest.time /\ data[i].counter > latest.counter)
         THEN [found |-> TRUE, ip |-> data[i].ip,
               time |-> data[i].time, counter |-> data[i].counter]
         ELSE latest,
         i + 1)

RECURSIVE PickLatestTimeOnly(_, _, _)
PickLatestTimeOnly(data, latest, i) ==
  IF i > Len(data) THEN latest
  ELSE PickLatestTimeOnly(data,
         IF data[i].time > latest.time
         THEN [found |-> TRUE, ip |-> data[i].ip,
               time |-> data[i].time, counter |-> data[i].counter]
         ELSE latest,
         i + 1)

\* Mutant: the comparison looks at the seconds only.
findNodeWithLatestDataTimeOnly(self, myOplog, peers, answers) ==
  PickLatestTimeOnly(
    CollectOplogs(IF myOplog # <<>> THEN OplogSet(<<>>, self, myOplog) ELSE <<>>,
                  peers, answers),
    NoLatest, 1)

\* findNodeWithLatestData(peerIPs) for the local read myOplog and the peers'
\* answers; .found = FALSE stands for the null result.
findNodeWithLatestData(self, myOplog, peers, answers) ==
  PickLatest(CollectOplogs(IF myOplog # <<>> THEN OplogSet(<<>>, self, myOplog) ELSE <<>>,
                           peers, answers),
             NoLatest, 1)

\* latestDataNode.isMe
IsMe(latest, self) == latest.ip = self


(***************************************************************************)
(* State: the single controller of Spec, and the cluster of SpecCluster.   *)
(***************************************************************************)
VARIABLES
  pc,          \* position of the controller (bootstrap, then the loop)
  engine,      \* the co-located engine: [primary, config]
  mongoClient, \* the module-level connection: "connected" or "null"
  cyc,         \* what the current reconciliation cycle has read and issued
  boot,        \* what bootstrap has read and issued
  gate,        \* the last oplog comparison (findNodeWithLatestData)
  wiped,       \* rm -rf /data/db/* has run
  assigned,    \* every [_id, host] the engine's config has held so far
  cl,          \* SpecCluster: the controllers and engines of a cold start
  hostsFile,   \* SpecHosts: /etc/hosts and the two identities of a node
  names,       \* SpecNames: two addresses and the hostnames derived
  sh,          \* SpecShell: the controller of entrypoint.sh and its engine
  api          \* SpecApi: the HTTP request being served beside the controller

vars ==
  <<pc, engine, mongoClient, cyc, boot, gate, wiped, assigned, cl, hostsFile,
    names, sh, api>>

\* The variables of the other specifications, which Spec leaves alone.
elsewhere == <<cl, hostsFile, names, sh, api>>

\* myIP of the controller of Spec.
myIP == IP2
myHostname == HostnameOf(myIP)
myPrimaryHost == HostOf(myHostname)

OplogValues == {Stamp(k) : k \in 1..MaxStamp}

\* The answers one peer can give to GET /primary and GET /oplog.
PrimaryAnswers ==
  { PrimaryAnswer("timeout", <<>>), PrimaryAnswer("nonOK", <<>>),
    PrimaryAnswer("ok", <<>>), PrimaryAnswer("ok", myPrimaryHost),
    PrimaryAnswer("ok", HostOf(HostnameOf(IP1))) }

\* For /oplog "failed" is a request that throws, times out or is not OK.
OplogAnswers ==
  { OplogAnswer("failed", <<>>), OplogAnswer("ok", <<>>) }
    \cup { OplogAnswer("ok", ts) : ts \in OplogValues }

\* The configurations the engine can hold when the controller starts.
InitialConfigs ==
  { [version |-> 1, members |-> <<Member(0, myPrimaryHost)>>],
    [version |-> 1, members |-> <<Member(0, HostOf(HostnameOf(IP1))),
                                  Member(1, myPrimaryHost),
                                  Member(2, HostOf(HostnameOf(IP3)))>>],
    [version |-> 2, members |-> <<Member(0, myPrimaryHost),
                                  Member(3, HostOf(HostnameOf(IP4)))>>] }

\* The hosts a /primary answer of the model can name.
NamedHosts == {a.primary : a \in {b \in PrimaryAnswers : b.kind = "ok" /\ b.primary # <<>>}}

NoNamed == [h \in NamedHosts |-> 0]

\* For each host, the number of peers whose answer was OK and named it.
NamedBy(answers) ==
  [h \in NamedHosts |->
     Cardinality({i \in 1..Len(answers) :
                    answers[i].kind = "ok" /\ answers[i].primary = h})]

\* cyc.votes is primaryVotes as the controller tallied it; cyc.named and
\* cyc.reachable are what the peers answered.  cyc.via tells how
\* nuclearResync was entered, cyc.rejoin how stepDownAndRejoin ended,
\* cyc.error what the replSetReconfig of the cycle threw.
EmptyCycle ==
  [peerIPs |-> <<>>, reg1Down |-> FALSE, primaryChecks |-> <<>>,
   fetchedAll |-> FALSE, allIPs |-> <<>>, totalKnownNodes |-> 0,
   consensusRan |-> FALSE, votes |-> <<>>, named |-> NoNamed, reachable |-> 0,
   splitBrain |-> FALSE,
   read |-> NoConfig, submitted |-> NoConfig, submitPrimary |-> FALSE,
   stepDowns |-> <<>>, via |-> "none", rejoin |-> "none", error |-> "none"]

\* The tally is local to the block of the consensus check.
ConsensusOutOfScope(c) ==
  [c EXCEPT !.votes = <<>>, !.named = NoNamed, !.reachable = 0]

\* nuclearResync(peerIPs) sees peerIPs only.
NuclearCall(peerIPs, via) == [EmptyCycle EXCEPT !.peerIPs = peerIPs, !.via = via]

EmptyBoot ==
  [status |-> <<>>, branch |-> "none", read |-> NoConfig, submitted |-> NoConfig,
   submitPrimary |-> FALSE, stepDowns |-> <<>>]

\* gate.peerTs: the timestamps the responsive peers returned; gate.my and
\* gate.my2: the first and the second local read (<<>> for null).
\* gate.evidence: what the reads show.  "peerNewer": the local read
\* succeeded and a responsive peer's timestamp is strictly greater;
\* "selfLatest": the local read succeeded and no responsive peer's is;
\* "peerOnly": no local timestamp, some peer timestamp; "none": neither.
\* No HTTP request is being served: the state of the API before the first
\* request and between two requests.
ApiIdle ==
  [pc |-> "idle", route |-> "none", answer |-> "none", afterClose |-> FALSE]

EmptyGate ==
  [by |-> "none", my |-> <<>>, my2 |-> <<>>, peers |-> <<>>, peerTs |-> {},
   evidence |-> "none"]

\* Timestamp order of the engine: seconds, then counter.
TsLess(a, b) == a[1] < b[1] \/ (a[1] = b[1] /\ a[2] < b[2])

\* The /oplog answers to the requests of one findNodeWithLatestData call.
\* An address listed twice is asked twice, and the timestamp of a peer's
\* latest oplog entry does not go back between the two requests.
OplogAnswerVectors(peers) ==
  { a \in [1..Len(peers) -> OplogAnswers] :
      \A i, j \in 1..Len(peers) :
        (i < j /\ peers[i] = peers[j] /\ a[i].ts # <<>> /\ a[j].ts # <<>>)
        => ~TsLess(a[j].ts, a[i].ts) }

PeerTimestamps(answers) ==
  {answers[i].ts : i \in {j \in 1..Len(answers) :
                            answers[j].kind = "ok" /\ answers[j].ts # <<>>}}

Evidence(my, peerTs) ==
  IF my = <<>> THEN (IF peerTs = {} THEN "none" ELSE "peerOnly")
  ELSE IF \E ts \in peerTs : TsLess(my, ts) THEN "peerNewer"
  ELSE "selfLatest"

GateOf(by, my, my2, answers) ==
  [by |-> by, my |-> my, my2 |-> my2, peers |-> <<>>,
   peerTs |-> PeerTimestamps(answers),
   evidence |-> Evidence(my, PeerTimestamps(answers))]

\* nuclearResync keeps latestDataNode only.
GateDigest(by, my, answers) ==
  [EmptyGate EXCEPT !.by = by, !.evidence = Evidence(my, PeerTimestamps(answers))]

\* The registry of SpecCluster: three nodes, listed out of order, one of
\* them with a port.
ClusterRegistry ==
  [status |-> "success", data |-> <<WithPort(IP3), IP1, IP2>>]

\* What fetchAllIPs() and, on node n, fetchPeerIPs() return in SpecCluster.
ClusterAllIPs == fetchAllIPs(ClusterRegistry)

Nodes == Range(ClusterAllIPs)

ClusterPeerIPs == [n \in Nodes |-> fetchPeerIPs(ClusterRegistry, n)]

\* '<hostname of n>:<port>' for the nodes of SpecCluster.
ClusterHost == [n \in Nodes |-> HostOf(HostnameOf(n))]

\* /etc/hosts before the entrypoint has run, no identity determined yet.
NoHosts ==
  [pc |-> "entrypoint", lines |-> <<>>, publicIP |-> <<>>, myIP |-> <<>>,
   via |-> "none"]

\* No address drawn, no hostname derived.
NoNames == [pc |-> "none"]

\* The controller of entrypoint.sh before its loop, no engine.
ShIdle == [pc |-> "none"]

\* Every engine uninitialized, every controller at the start of bootstrap.
\* rs[n] is the founder of the replica set the engine of n belongs to and
\* config[f] the configuration of the set founded by f; selfCheck[n] is
\* the outcome of the latest canReachSelf() of n; joiners holds the nodes
\* whose checkPeersForReplicaSet() returned true.
ColdCluster ==
  [bpc        |-> [n \in Nodes |-> "status"],
   polls      |-> [n \in Nodes |-> 0],
   rs         |-> [n \in Nodes |-> <<>>],
   config     |-> [n \in Nodes |-> NoConfig],
   initiators |-> {},
   rootUsers  |-> {},
   waitedOut  |-> {},
   reconfigs  |-> 0,
   selfCheck  |-> [n \in Nodes |-> "none"],
   joiners    |-> {},
   unreachable |-> FALSE]

Init ==
  /\ pc = "boot_status"
  /\ engine \in [primary : BOOLEAN, config : InitialConfigs]
  /\ mongoClient = "connected"
  /\ cyc = EmptyCycle
  /\ boot = EmptyBoot
  /\ gate = EmptyGate
  /\ wiped = FALSE
  /\ api = ApiIdle
  /\ assigned = Range(engine.config.members)
  /\ cl = ColdCluster
  /\ hostsFile = NoHosts
  /\ names = NoNames
  /\ sh = ShIdle


(***************************************************************************)
(* Environment: the engine's own elections and step-downs.                 *)
(***************************************************************************)
\* The engine gains or loses PRIMARY on its own (election, heartbeat
\* timeout, a step-down that ends); the controller does not decide it.
EngineElection ==
  /\ pc \notin {"nuke_wipe", "nuke_mkdir", "nuke_exit", "exited"}
  /\ engine' = [engine EXCEPT !.primary = ~engine.primary]
  /\ UNCHANGED <<pc, mongoClient, cyc, boot, gate, wiped, assigned, elsewhere>>

(***************************************************************************)
(* bootstrap(), the branch for an initialized replica set.                 *)
(***************************************************************************)
\* rsStatus.members as replSetGetStatus can report them for the config:
\* the self member is healthy and PRIMARY (state 1) exactly when the engine
\* is, every other member is PRIMARY, SECONDARY (2) or down (health 0,
\* state 8), and at most one member is PRIMARY.
StatusViews(config, primaryNow) ==
  LET n == Len(config.members)
      IsSelf(i) == config.members[i].host = myPrimaryHost
      ok(v) == /\ \A i \in 1..n : IsSelf(i) => v[i] = IF primaryNow THEN 1 ELSE 2
               /\ Cardinality({i \in 1..n : v[i] = 1}) <= 1
  IN  { [i \in 1..n |->
           [_id |-> config.members[i]._id, name |-> config.members[i].host,
            health |-> IF v[i] = 8 THEN 0 ELSE 1, state |-> v[i], self |-> IsSelf(i)]]
        : v \in {w \in [1..n -> {1, 2, 8}] : ok(w)} }

\* Mutant: the test for a missing PRIMARY is left out.
SelfHealConditionIgnoringPrimary(members) ==
  /\ Len(members) > 1
  /\ Cardinality({i \in 1..Len(members) : members[i].health = 1}) = 1

\* Mutant: the forced reconfigure is entered when any member is down.
SelfHealConditionAnyDown(members) ==
  /\ Len(members) > 1
  /\ \E i \in 1..Len(members) : members[i].health = 0

\* totalMembers > 1 && reachableMembers === 1 && hasNoPrimary
SelfHealCondition(members) ==
  /\ Len(members) > 1
  /\ Cardinality({i \in 1..Len(members) : members[i].health = 1}) = 1
  /\ ~ \E i \in 1..Len(members) : members[i].state = 1

\* members.some(m => m.self && m.state === 1)
iAmPrimary(members) ==
  \E i \in 1..Len(members) : members[i].self /\ members[i].state = 1

\* members.find(m => m.self)._id
SelfMemberId(members) ==
  members[CHOOSE i \in 1..Len(members) :
            members[i].self /\ \A j \in 1..(i - 1) : ~members[j].self]._id

\* {...config, version: config.version + 1,
\*  members: [config.members.find(m => m._id === selfMember._id)]}
ForcedSingleMemberConfig(config, members) ==
  LET id == SelfMemberId(members)
      k  == CHOOSE i \in 1..Len(config.members) :
              config.members[i]._id = id
              /\ \A j \in 1..(i - 1) : config.members[j]._id # id
  IN  [version |-> NextVersion(config.version), members |-> <<config.members[k]>>]

\* timeDiff > 0, with timeDiff = latestDataNode.time - myOplog.time
StalePrimaryStepsDown(latest, myOplog2) ==
  myOplog2 # <<>> /\ latest.time - myOplog2[1] > 0

\* replSetGetStatus after the ping: the three-way branch of lines 1287/1324.
BootReadStatus ==
  /\ pc = "boot_status"
  /\ \/ \* replSetGetStatus throws: caught, logged, bootstrap goes on
        /\ boot' = [boot EXCEPT !.branch = "error"]
        /\ pc' = "boot_done"
     \/ \E members \in StatusViews(engine.config, engine.primary) :
          /\ boot' = [boot EXCEPT !.status = members,
                        !.branch = IF SelfHealCondition(members) THEN "heal"
                                   ELSE IF iAmPrimary(members) THEN "stale"
                                   ELSE "none"]
          /\ pc' = IF SelfHealCondition(members) THEN "boot_heal_fetch"
                   ELSE IF iAmPrimary(members) THEN "boot_stale_fetch"
                   ELSE "boot_done"
  /\ UNCHANGED <<engine, mongoClient, cyc, gate, wiped, assigned, elsewhere>>

\* const peerIPs = await fetchPeerIPs(), in either branch.
BootFetchPeers(registry) ==
  /\ pc \in {"boot_heal_fetch", "boot_stale_fetch"}
  /\ \E resp \in registry :
       gate' = [EmptyGate EXCEPT !.peers = fetchPeerIPs(resp, myIP)]
  /\ pc' = IF pc = "boot_heal_fetch" THEN "boot_heal_gate"
           ELSE IF Len(gate'.peers) > 0 THEN "boot_stale_gate" ELSE "boot_done"
  /\ UNCHANGED <<engine, mongoClient, cyc, boot, wiped, assigned, elsewhere>>

\* The safety check before the forced reconfigure: abort when
\* latestDataNode && !latestDataNode.isMe.
BootHealGate ==
  /\ pc = "boot_heal_gate"
  /\ \E my \in OplogValues \cup {<<>>},
        answers \in OplogAnswerVectors(gate.peers) :
       LET latestDataNode == findNodeWithLatestData(myIP, my, gate.peers, answers)
       IN  /\ gate' = GateOf("heal", my, my, answers)
           /\ pc' = IF latestDataNode.found /\ ~IsMe(latestDataNode, myIP)
                    THEN "boot_done" ELSE "boot_heal_submit"
  /\ UNCHANGED <<engine, mongoClient, cyc, boot, wiped, assigned, elsewhere>>

\* replSetGetConfig, then replSetReconfig {force: true} with the
\* single-member config; an error of either is caught and logged.
BootHealSubmit ==
  /\ pc = "boot_heal_submit"
  /\ engine.config.version < MaxVersion
  /\ \/ \* replSetGetConfig throws
        /\ UNCHANGED <<engine, boot>>
     \/ \E applied \in BOOLEAN :
          LET newConfig == ForcedSingleMemberConfig(engine.config, boot.status)
          IN  /\ boot' = [boot EXCEPT !.read = engine.config, !.submitted = newConfig,
                                      !.submitPrimary = engine.primary]
              /\ engine' = IF applied THEN [engine EXCEPT !.config = newConfig]
                           ELSE engine
  /\ pc' = "boot_done"
  /\ UNCHANGED <<mongoClient, cyc, gate, wiped, assigned, elsewhere>>

\* The stale-primary check: findNodeWithLatestData, a second local read,
\* and replSetStepDown: 300 when timeDiff > 0.
BootStaleGate ==
  /\ pc = "boot_stale_gate"
  /\ \E my \in OplogValues \cup {<<>>}, my2 \in OplogValues \cup {<<>>},
        answers \in OplogAnswerVectors(gate.peers) :
       LET latestDataNode == findNodeWithLatestData(myIP, my, gate.peers, answers)
       IN  /\ (my # <<>> /\ my2 # <<>>) => ~TsLess(my2, my)
           /\ gate' = GateOf("stale", my, my2, answers)
           /\ IF /\ latestDataNode.found /\ ~IsMe(latestDataNode, myIP)
                 /\ StalePrimaryStepsDown(latestDataNode, my2)
              THEN /\ boot' = [boot EXCEPT !.stepDowns = Append(@, StepDownStalePrimary)]
                   /\ engine' = [engine EXCEPT !.primary = FALSE]
              ELSE UNCHANGED <<boot, engine>>
  /\ pc' = "boot_done"
  /\ UNCHANGED <<mongoClient, cyc, wiped, assigned, elsewhere>>

\* reconciliationLoop() is started; bootstrap's locals go out of scope.
StartLoop ==
  /\ pc = "boot_done"
  /\ pc' = "loop"
  /\ boot' = EmptyBoot
  /\ gate' = EmptyGate
  /\ UNCHANGED <<engine, mongoClient, cyc, wiped, assigned, elsewhere>>


(***************************************************************************)
(* reconciliationLoop() and reconcileReplicaSet(peerIPs).                  *)
(***************************************************************************)
\* const peerIPs = await fetchPeerIPs(), at the top of the loop.
LoopFetchPeers(registry) ==
  /\ pc = "loop"
  /\ \E resp \in registry :
       cyc' = [EmptyCycle EXCEPT !.peerIPs = fetchPeerIPs(resp, myIP),
                                 !.reg1Down = RegistryDown(resp)]
  /\ pc' = "rec_isPrimary"
  /\ UNCHANGED <<engine, mongoClient, boot, gate, wiped, assigned, elsewhere>>

\* Mutant: the cycle goes on whatever isPrimary() returned.
AfterPrimaryCheckNoReturn(isPrimaryNow) == "rec_fetchAll"

\* if (!isPrimaryNow) { log(...); return; }
AfterPrimaryCheck(isPrimaryNow) ==
  IF isPrimaryNow THEN "rec_fetchAll" ELSE "rec_done"

\* isPrimary(): reconnects when there is no connected client, then hello;
\* an exception yields false.  Not primary: the cycle is skipped.
RecIsPrimary ==
  /\ pc = "rec_isPrimary"
  /\ \E helloThrows \in BOOLEAN :
       LET isPrimaryNow == ~helloThrows /\ engine.primary
       IN  /\ mongoClient' = "connected"
           /\ cyc' = [cyc EXCEPT !.primaryChecks = Append(@, isPrimaryNow)]
           /\ pc' = AfterPrimaryCheck(isPrimaryNow)
  /\ UNCHANGED <<engine, boot, gate, wiped, assigned, elsewhere>>

\* const allIPs = await fetchAllIPs(); totalKnownNodes = allIPs.length
RecFetchAll(registry) ==
  /\ pc = "rec_fetchAll"
  /\ \E resp \in registry :
       cyc' = [cyc EXCEPT !.fetchedAll = TRUE,
                          !.allIPs = fetchAllIPs(resp),
                          !.totalKnownNodes = Len(fetchAllIPs(resp))]
  /\ pc' = IF cyc'.totalKnownNodes > 1 THEN "rec_consensus" ELSE "rec_getConfig"
  /\ UNCHANGED <<engine, mongoClient, boot, gate, wiped, assigned, elsewhere>>

\* checkPeerPrimaryConsensus(peerIPs) and the split-brain decision.
RecConsensus ==
  /\ pc = "rec_consensus"
  /\ \E answers \in [1..Len(cyc.peerIPs) -> PrimaryAnswers] :
       LET sb == SplitBrainDetected(answers, cyc.totalKnownNodes, myIP)
       IN  /\ cyc' = [cyc EXCEPT !.consensusRan = TRUE,
                                 !.votes = checkPeerPrimaryConsensus(<<>>, answers),
                                 !.named = NamedBy(answers),
                                 !.reachable = ReachablePeers(answers),
                                 !.splitBrain = sb]
           /\ pc' = IF sb THEN "sb_stepDown" ELSE "rec_getConfig"
  /\ UNCHANGED <<engine, mongoClient, boot, gate, wiped, assigned, elsewhere>>

\* stepDownAndRejoin, first half: replSetStepDown: 60 (an error of the
\* command is logged and ignored).
SbStepDown ==
  /\ pc = "sb_stepDown"
  /\ cyc' = [cyc EXCEPT !.stepDowns = Append(@, StepDownSplitBrain)]
  /\ engine' = [engine EXCEPT !.primary = FALSE]
  /\ pc' = "sb_rejoin"
  /\ UNCHANGED <<mongoClient, boot, gate, wiped, assigned, elsewhere>>

\* Mutant: nuclearResync follows whatever stepDownAndRejoin returned.
AfterRejoinAlwaysNuke(outcome) == "nuke_gate"

\* if (!rejoinSuccess) { await nuclearResync(peerIPs); } return;
AfterRejoin(outcome) == IF outcome = "joined" THEN "rec_done" ELSE "nuke_gate"

\* stepDownAndRejoin, second half: close, connectMongo, getReplicaSetStatus.
\* true when the status is an initialized set; false on notInitialized,
\* needsAuth or an exception, and then nuclearResync(peerIPs) follows.
SbRejoin ==
  /\ pc = "sb_rejoin"
  /\ \E outcome \in {"joined", "notInitialized", "needsAuth", "throws"} :
       /\ pc' = AfterRejoin(outcome)
       /\ cyc' = IF AfterRejoin(outcome) = "rec_done"
                 THEN [cyc EXCEPT !.rejoin = outcome]
                 ELSE [NuclearCall(cyc.peerIPs, "splitBrain") EXCEPT !.rejoin = outcome]
  /\ UNCHANGED <<engine, mongoClient, boot, gate, wiped, assigned, elsewhere>>

\* The engine's validation of a replSetReconfig document: no two members
\* with the same _id or the same host.
EngineAccepts(config) ==
  \A i, j \in 1..Len(config.members) :
    i # j => /\ config.members[i]._id # config.members[j]._id
             /\ config.members[i].host # config.members[j].host

\* getReplicaSetConfig (with one reconnect and retry when it fails), then
\* toAdd / toRemove and the new config, up to the replSetReconfig command.
RecGetConfig ==
  /\ pc = "rec_getConfig"
  /\ \/ \* no config even after the reconnect: the cycle is skipped
        /\ cyc' = ConsensusOutOfScope(cyc)
        /\ pc' = "rec_done"
     \/ /\ cyc' = [ConsensusOutOfScope(cyc) EXCEPT !.read = engine.config]
        /\ pc' = IF InSync(engine.config, myIP, cyc.peerIPs)
                 THEN "rec_done" ELSE "rec_submit"
  /\ UNCHANGED <<engine, mongoClient, boot, gate, wiped, assigned, elsewhere>>

\* Mutant: the catch block logs every error and does nothing else.
AfterReconfigErrorLogOnly(outcome) == "rec_done"

\* The catch block: nuclearResync(peerIPs) when the message names a
\* replica-set-ID mismatch, the log line alone for any other error.
AfterReconfigError(outcome) ==
  IF outcome = "IdMismatch" THEN "rec_mismatch" ELSE "rec_done"

\* await admin.command({replSetReconfig: config}).  The engine applies the
\* config only when it is PRIMARY and the config is valid; a
\* replica-set-ID mismatch error leads to
\* nuclearResync, any other error is logged.
RecSubmit ==
  /\ pc = "rec_submit"
  /\ engine.config.version < MaxVersion
  /\ \E newConfig \in {ReconciledConfig(cyc.read, myIP, cyc.peerIPs)} :
         \E outcome \in {"ok", "NotPrimary", "IdMismatch", "other"} :
           /\ outcome = "ok" => (engine.primary /\ EngineAccepts(newConfig))
           /\ outcome = "NotPrimary" => ~engine.primary
           /\ cyc' = [cyc EXCEPT !.submitted = newConfig,
                                 !.submitPrimary = engine.primary,
                                 !.error = IF outcome = "ok" THEN "none" ELSE outcome]
           /\ engine' = IF outcome = "ok" THEN [engine EXCEPT !.config = newConfig]
                        ELSE engine
           /\ assigned' = IF outcome = "ok"
                          THEN assigned \cup Range(newConfig.members) ELSE assigned
           /\ pc' = AfterReconfigError(outcome)
  /\ UNCHANGED <<mongoClient, boot, gate, wiped, elsewhere>>

\* The catch block saw 'Our replica set ID did not match':
\* await nuclearResync(peerIPs).
RecMismatch ==
  /\ pc = "rec_mismatch"
  /\ pc' = "nuke_gate"
  /\ cyc' = NuclearCall(cyc.peerIPs, "mismatch")
  /\ UNCHANGED <<engine, mongoClient, boot, gate, wiped, assigned, elsewhere>>

\* The cycle is over: sleep RECONCILE_INTERVAL, then the next iteration.
CycleEnd ==
  /\ pc = "rec_done"
  /\ pc' = "loop"
  /\ cyc' = EmptyCycle
  /\ gate' = EmptyGate
  /\ UNCHANGED <<engine, mongoClient, boot, wiped, assigned, elsewhere>>

(***************************************************************************)
(* nuclearResync(peerIPs).                                                 *)
(***************************************************************************)
\* The safety check: return when latestDataNode && latestDataNode.isMe,
\* proceed otherwise (also when latestDataNode is null).
NukeGate ==
  /\ pc = "nuke_gate"
  /\ \E my \in OplogValues \cup {<<>>},
        answers \in OplogAnswerVectors(cyc.peerIPs) :
       LET latestDataNode == findNodeWithLatestData(myIP, my, cyc.peerIPs, answers)
       IN  /\ gate' = GateDigest("nuke", my, answers)
           /\ pc' = IF latestDataNode.found /\ IsMe(latestDataNode, myIP)
                    THEN "rec_done" ELSE "nuke_close"
  /\ UNCHANGED <<engine, mongoClient, cyc, boot, wiped, assigned, elsewhere>>

\* Mutant: the data is deleted without the engine being told to stop.
AfterNukeCloseSkipKill == "nuke_wipe"

\* After the close: execAsync('pkill -SIGTERM mongod')
AfterNukeClose == "nuke_kill"

\* await mongoClient.close(); mongoClient = null
NukeClose ==
  /\ pc = "nuke_close"
  /\ mongoClient' = "null"
  /\ pc' = AfterNukeClose
  /\ UNCHANGED <<engine, cyc, boot, gate, wiped, assigned, elsewhere>>

\* Mutant: an exception of the cycle ends the loop.
AfterCycleExceptionLoopEnds == "loop_ended"

\* catch (error) { log(`Reconciliation error: ...`) } in the while (true)
\* of reconciliationLoop: the sleep and the next iteration follow.
AfterCycleException == "rec_done"

\* execAsync('pkill -SIGTERM mongod') and the 5 s wait: the engine process
\* ends.  A rejected exec (no process matched) is rethrown by nuclearResync
\* and caught by the loop.
NukeKill ==
  /\ pc = "nuke_kill"
  /\ \/ /\ pc' = "nuke_wipe"
        /\ engine' = [engine EXCEPT !.primary = FALSE]
     \/ /\ pc' = AfterCycleException
        /\ engine' = engine
  /\ UNCHANGED <<mongoClient, cyc, boot, gate, wiped, assigned, elsewhere>>

\* execAsync('rm -rf /data/db/*'): the data directory, the replica-set
\* config in it included, is gone.
NukeWipe ==
  /\ pc = "nuke_wipe"
  /\ wiped' = TRUE
  /\ engine' = [engine EXCEPT !.config = NoConfig]
  /\ pc' = "nuke_mkdir"
  /\ UNCHANGED <<mongoClient, cyc, boot, gate, assigned, elsewhere>>

\* execAsync('mkdir -p /data/db')
NukeMkdir ==
  /\ pc = "nuke_mkdir"
  /\ pc' = "nuke_exit"
  /\ UNCHANGED <<engine, mongoClient, cyc, boot, gate, wiped, assigned, elsewhere>>

\* process.exit(1)
NukeExit ==
  /\ pc = "nuke_exit"
  /\ pc' = "exited"
  /\ UNCHANGED <<engine, mongoClient, cyc, boot, gate, wiped, assigned, elsewhere>>

\* The controller and its environment, for the responses `registry` the
\* registry can give.
Controller(registry) ==
  \/ EngineElection
  \/ BootReadStatus
  \/ BootFetchPeers(registry)
  \/ BootHealGate
  \/ BootHealSubmit
  \/ BootStaleGate
  \/ StartLoop
  \/ LoopFetchPeers(registry)
  \/ RecIsPrimary
  \/ RecFetchAll(registry)
  \/ RecConsensus
  \/ SbStepDown
  \/ SbRejoin
  \/ RecGetConfig
  \/ RecSubmit
  \/ RecMismatch
  \/ CycleEnd
  \/ NukeGate
  \/ NukeClose
  \/ NukeKill
  \/ NukeWipe
  \/ NukeMkdir
  \/ NukeExit

Next == Controller(RegistryResponses)

Spec == Init /\ [][Next]_vars

\* The same controller beside a registry whose list changes size, started
\* on the three-member configuration.
InitWide ==
  /\ Init
  /\ Len(engine.config.members) = 3

NextWide == Controller(WideRegistryResponses)

SpecWide == InitWide /\ [][NextWide]_vars

\* process.on('SIGTERM'): the connection is closed and process.exit(0).
Sigterm ==
  /\ pc \notin {"exited", "terminated"}
  /\ pc' = "terminated"
  /\ UNCHANGED <<engine, mongoClient, cyc, boot, gate, wiped, assigned, elsewhere>>

\* A step of reconciliationLoop or of what it calls.
LoopStep ==
  \/ LoopFetchPeers(RegistryResponses)
  \/ RecIsPrimary
  \/ RecFetchAll(RegistryResponses)
  \/ RecConsensus
  \/ SbStepDown
  \/ SbRejoin
  \/ RecGetConfig
  \/ RecSubmit
  \/ RecMismatch
  \/ CycleEnd
  \/ NukeGate
  \/ NukeClose
  \/ NukeKill
  \/ NukeWipe
  \/ NukeMkdir
  \/ NukeExit

NextLoop == Next \/ Sigterm

\* Spec with the termination signal.
SpecLoop == Init /\ [][NextLoop]_vars

\* Every await of the loop returns or throws (requests and commands carry
\* timeouts) and every timer fires.
SpecLoopFair == SpecLoop /\ WF_vars(LoopStep)

\* ---------------------------------------------------------------------
\* The REST API beside the controller.  app.listen runs before bootstrap
\* and every handler is an async function, so a request interleaves with
\* the controller at each await; both use the module-level mongoClient.
\* ---------------------------------------------------------------------

\* The routes that issue an engine command.
ApiRoutes == {"/status", "/oplog", "/primary"}

\* nuclearResync has closed the connection and has not yet ended the process.
AfterNuclearClose == pc \in {"nuke_kill", "nuke_wipe", "nuke_mkdir", "nuke_exit"}

\* mongod still accepts connections: pkill and the wait have not run yet.
EngineAcceptsConnections ==
  pc \notin {"nuke_wipe", "nuke_mkdir", "nuke_exit", "exited", "terminated"}

\* isPrimary's catch: error.message.includes('ECONNREFUSED') ||
\* error.message.includes('closed') leads to await connectMongo().
isPrimaryCatchReconnects(rejected, messageMatches) ==
  rejected /\ messageMatches

\* app.get(route): the handler's first call, getReplicaSetStatus or
\* getLatestOplogTimestamp.  mongoClient.db(...) of a null client is a
\* TypeError (caught: 500, or a null timestamp) and sends nothing; otherwise
\* the command is sent and awaited.
ApiRequest(routes) ==
  /\ pc \notin {"exited", "terminated"}
  /\ api.pc = "idle"
  /\ \E route \in routes :
       api' = IF mongoClient = "null"
              THEN [api EXCEPT !.route = route,
                               !.answer = IF route = "/oplog" THEN "200"
                                          ELSE "500"]
              ELSE [pc |-> "command", route |-> route, answer |-> "none",
                    afterClose |-> api.afterClose \/ AfterNuclearClose]
  /\ UNCHANGED <<pc, engine, mongoClient, cyc, boot, gate, wiped, assigned,
                 cl, hostsFile, names, sh>>

\* The first command settles.  On a client that is no longer connected it is
\* rejected.  GET /primary goes on, after a status, to isPrimary(): its
\* guard (!mongoClient || isConnected() === false) is false on a connected
\* client, so hello is sent and awaited.
ApiCommandReturns ==
  /\ pc \notin {"exited", "terminated"}
  /\ api.pc = "command"
  /\ \E rejected \in BOOLEAN :
       /\ mongoClient # "connected" => rejected
       /\ api' = IF ~rejected /\ api.route = "/primary"
                 THEN [api EXCEPT !.pc = "hello",
                                  !.afterClose = @ \/ AfterNuclearClose]
                 ELSE [api EXCEPT !.pc = "idle",
                                  !.answer = IF rejected /\ api.route # "/oplog"
                                             THEN "500" ELSE "200"]
  /\ UNCHANGED <<pc, engine, mongoClient, cyc, boot, gate, wiped, assigned,
                 cl, hostsFile, names, sh>>

\* isPrimary's hello settles.  A rejection whose message matches makes the
\* catch call connectMongo(), which assigns a new MongoClient to the
\* module-level variable and awaits its connect().
ApiHelloReturns ==
  /\ pc \notin {"exited", "terminated"}
  /\ api.pc = "hello"
  /\ \E rejected \in BOOLEAN, messageMatches \in BOOLEAN :
       /\ mongoClient # "connected" => rejected
       /\ IF isPrimaryCatchReconnects(rejected, messageMatches)
          THEN /\ mongoClient' = "connecting"
               /\ api' = [api EXCEPT !.pc = "reconnect"]
          ELSE /\ mongoClient' = mongoClient
               /\ api' = [api EXCEPT !.pc = "idle", !.answer = "200"]
  /\ UNCHANGED <<pc, engine, cyc, boot, gate, wiped, assigned,
                 cl, hostsFile, names, sh>>

\* connectMongo's connect() settles: the new client is connected when mongod
\* still accepts connections, and is left assigned but unconnected when it
\* does not; isPrimary returns false and the handler answers.
ApiReconnectReturns ==
  /\ pc \notin {"exited", "terminated"}
  /\ api.pc = "reconnect"
  /\ mongoClient' = IF mongoClient # "connecting" THEN mongoClient
                    ELSE IF EngineAcceptsConnections THEN "connected"
                    ELSE "unconnected"
  /\ api' = [api EXCEPT !.pc = "idle", !.answer = "200"]
  /\ UNCHANGED <<pc, engine, cyc, boot, gate, wiped, assigned,
                 cl, hostsFile, names, sh>>

NextApi ==
  \/ Next
  \/ ApiRequest(ApiRoutes)
  \/ ApiCommandReturns
  \/ ApiHelloReturns
  \/ ApiReconnectReturns

\* The controller with a request being served beside it.
SpecApi == Init /\ [][NextApi]_vars

\* Spec with the commands of nuclearResync after the deletion completing:
\* mkdir returns and process.exit(1) is reached.
SpecExitFair == Spec /\ WF_vars(NukeMkdir) /\ WF_vars(NukeExit)

(***************************************************************************)
(* SpecCluster: bootstrap() of every node against an uninitialized engine, *)
(* then the reconciliation loop.  The API server of a node listens before  *)
(* its bootstrap starts.  cl.unreachable records that a self-reachability  *)
(* check or a peer /health request failed.                                 *)
(***************************************************************************)
controllerVars ==
  <<pc, engine, mongoClient, cyc, boot, gate, wiped, assigned, hostsFile,
    names, sh, api>>

\* Mutant: every self-reachable node is the leader.
isLeaderWithoutOrder(self, peerIPs, selfReachable) == selfReachable

\* Mutant: the lowest address leads whether or not it reaches itself.
isLeaderUnchecked(self, peerIPs, selfReachable) ==
  SortStrings(<<self>> \o peerIPs)[1] = self

\* isLeader(peerIPs): [myIP, ...peerIPs].sort(), canReachSelf(), then
\* allIPs[0] === myIP.
isLeader(self, peerIPs, selfReachable) ==
  LET allIPs == SortStrings(<<self>> \o peerIPs)
  IN  selfReachable /\ allIPs[1] = self

\* getReplicaSetStatus() of node n does not report notInitialized.
Initialized(n) == cl.rs[n] # <<>>

\* The engine of n is the PRIMARY of the set it founded (until recovery
\* makes it step down).
ClusterPrimary(n) == cl.rs[n] = n /\ cl.bpc[n] # "recovery"

\* GET /primary of peer p: a 500 before its bootstrap has connected, else
\* the name of the member its status shows in state 1, or null.
PeerPrimaryAnswer(p) ==
  IF cl.bpc[p] = "status" THEN PrimaryAnswer("nonOK", <<>>)
  ELSE IF Initialized(p) /\ ClusterPrimary(cl.rs[p])
  THEN PrimaryAnswer("ok", ClusterHost[cl.rs[p]])
  ELSE PrimaryAnswer("ok", <<>>)

\* const status = await getReplicaSetStatus() in bootstrap.  An engine that
\* was added to a set meanwhile is a SECONDARY beside a reachable PRIMARY:
\* neither the self-heal nor the stale-primary check applies.  An error
\* other than NotYetInitialized and Unauthorized is rethrown by
\* getReplicaSetStatus and ends bootstrap.
ClStatus(n) ==
  /\ cl.bpc[n] = "status"
  /\ \/ cl' = [cl EXCEPT !.bpc[n] = IF Initialized(n) THEN "loop" ELSE "probe"]
     \/ cl' = [cl EXCEPT !.bpc[n] = "failed"]
  /\ UNCHANGED controllerVars

\* Mutant: the election is run whatever the peer probe found.
AfterPeerProbeAlwaysElect(peerHasReplicaSet) == "elect"

\* if (peerHasReplicaSet) { wait to join } else { leader election }
AfterPeerProbe(peerHasReplicaSet) ==
  IF peerHasReplicaSet THEN "joinWait" ELSE "elect"

\* checkPeersForReplicaSet(peerIPs): true when replSetGetStatus succeeds on
\* some peer's engine; a refused connection or an error of the command
\* (NotYetInitialized, Unauthorized) moves on to the next peer.
ClProbe(n) ==
  /\ cl.bpc[n] = "probe"
  /\ \E peerHasReplicaSet \in BOOLEAN :
       /\ peerHasReplicaSet =>
            \E p \in Range(ClusterPeerIPs[n]) : Initialized(p)
       /\ cl' = [cl EXCEPT !.bpc[n] = AfterPeerProbe(peerHasReplicaSet),
                           !.joiners = IF peerHasReplicaSet THEN @ \cup {n} ELSE @,
                           !.polls[n] = 0]
  /\ UNCHANGED controllerVars

\* const leader = await isLeader(peerIPs)
ClElect(n) ==
  /\ cl.bpc[n] = "elect"
  /\ \E selfReachable \in BOOLEAN :
       cl' = [cl EXCEPT
                !.bpc[n] = IF isLeader(n, ClusterPeerIPs[n], selfReachable)
                           THEN "initiate" ELSE "wait",
                !.selfCheck[n] = IF selfReachable THEN "ok" ELSE "failed",
                !.unreachable = @ \/ ~selfReachable]
  /\ UNCHANGED controllerVars

\* initializeReplicaSet(): replSetInitiate with this node as the sole
\* member, _id 0; the single-member set elects itself during the 5 s wait.
\* AlreadyInitialized is caught; any other error is rethrown and ends
\* bootstrap.
ClInitiate(n) ==
  /\ cl.bpc[n] = "initiate"
  /\ \/ /\ ~Initialized(n)
        /\ cl' = [cl EXCEPT !.initiators = @ \cup {n},
                            !.rs[n] = n,
                            !.config[n] = [version |-> 1,
                                           members |-> <<Member(0, ClusterHost[n])>>],
                            !.bpc[n] = "createUser"]
     \/ /\ Initialized(n)
        /\ cl' = [cl EXCEPT !.initiators = @ \cup {n}, !.bpc[n] = "loop"]
     \/ cl' = [cl EXCEPT !.initiators = @ \cup {n}, !.bpc[n] = "failed"]
  /\ UNCHANGED controllerVars

\* createRootUserAfterInit(): createUser, then the reconnect with
\* authentication; false when there are no credentials or on an error.
ClCreateUser(n) ==
  /\ cl.bpc[n] = "createUser"
  /\ \E created \in BOOLEAN :
       cl' = [cl EXCEPT !.rootUsers = IF created THEN @ \cup {n} ELSE @,
                        !.bpc[n] = "loop"]
  /\ UNCHANGED controllerVars

\* Mutant: the wait has no last iteration.
WaitGoesOnForever(polls) == TRUE

\* for (let i = 0; i < 30; i++): after the poll numbered polls + 1 another
\* one follows.
WaitGoesOn(polls) == polls + 1 < MaxPolls

\* One iteration of a wait loop: sleep 10 s, getReplicaSetStatus().  The
\* wait for the leader ends in the takeover check, the wait to join an
\* existing set in the reconnect.  An error that getReplicaSetStatus
\* rethrows ends bootstrap.
ClPoll(n) ==
  /\ cl.bpc[n] \in {"wait", "joinWait"}
  /\ cl.polls[n] < MaxPolls
  /\ \/ cl' = [cl EXCEPT
                 !.polls[n] = IF ~Initialized(n) /\ WaitGoesOn(@) THEN @ + 1 ELSE 0,
                 !.bpc[n] = IF Initialized(n) THEN "loop"
                            ELSE IF WaitGoesOn(cl.polls[n]) THEN @
                            ELSE IF @ = "wait" THEN "takeover" ELSE "loop"]
     \/ cl' = [cl EXCEPT !.polls[n] = 0, !.bpc[n] = "failed"]
  /\ UNCHANGED controllerVars

\* The takeover check after the wait: getReachablePeers(peerIPs), sort;
\* the lowest reachable address initiates when canReachSelf().
ClTakeover(n) ==
  /\ cl.bpc[n] = "takeover"
  /\ \E reachable \in SUBSET Range(ClusterPeerIPs[n]), canBeLeader \in BOOLEAN :
       \E reachableIPs \in
            {SortStrings(<<n>> \o SelectSeq(ClusterPeerIPs[n],
                                            LAMBDA ip : ip \in reachable))} :
         /\ reachableIPs[1] # n => canBeLeader
         /\ cl' = [cl EXCEPT
                     !.bpc[n] = IF reachableIPs[1] = n /\ canBeLeader
                                THEN "initiate" ELSE "loop",
                     !.waitedOut = @ \cup {n},
                     !.selfCheck[n] = IF reachableIPs[1] # n THEN @
                                      ELSE IF canBeLeader THEN "ok" ELSE "failed",
                     !.unreachable = @ \/ reachable # Range(ClusterPeerIPs[n])
                                       \/ ~canBeLeader]
  /\ UNCHANGED controllerVars

\* Mutant: the loop is started before the root user is created.
LoopRunningEarly(n) == cl.bpc[n] \in {"loop", "createUser"}

\* reconciliationLoop() is the last statement of bootstrap().
LoopRunning(n) == cl.bpc[n] = "loop"

\* One cycle of reconciliationLoop on node n: fetchPeerIPs, isPrimary,
\* fetchAllIPs and the consensus check, then the membership sync.  A
\* split-brain verdict hands the node to recovery, which is the matter of
\* Spec.
ClReconcile(n) ==
  /\ LoopRunning(n)
  /\ IF ~ClusterPrimary(n) THEN cl' = cl
     ELSE
       \E peerIPs \in {ClusterPeerIPs[n]}, totalKnownNodes \in {Len(ClusterAllIPs)} :
       \E answers \in {[i \in 1..Len(peerIPs) |-> PeerPrimaryAnswer(peerIPs[i])]} :
         IF totalKnownNodes > 1 /\ SplitBrainDetected(answers, totalKnownNodes, n)
         THEN cl' = [cl EXCEPT !.bpc[n] = "recovery"]
         ELSE IF InSync(cl.config[n], n, peerIPs) THEN cl' = cl
         ELSE \E newConfig \in {ReconciledConfig(cl.config[n], n, peerIPs)} :
                /\ cl.reconfigs < MaxReconfigs
                /\ cl' = [cl EXCEPT !.reconfigs = @ + 1,
                                    !.config[n] = IF EngineAccepts(newConfig)
                                                  THEN newConfig ELSE @]
  /\ UNCHANGED controllerVars

\* The heartbeat of a PRIMARY reaches an uninitialized engine that its
\* config lists: the engine installs the config and joins the set.
ClEngineJoin(n) ==
  /\ ~Initialized(n)
  /\ \E f \in Nodes :
       /\ ClusterPrimary(f)
       /\ ClusterHost[n] \in {m.host : m \in Range(cl.config[f].members)}
       /\ cl' = [cl EXCEPT !.rs[n] = f]
  /\ UNCHANGED controllerVars

InitCluster ==
  /\ pc = "boot_status"
  /\ engine = [primary |-> FALSE, config |-> NoConfig]
  /\ mongoClient = "connected"
  /\ cyc = EmptyCycle
  /\ boot = EmptyBoot
  /\ gate = EmptyGate
  /\ wiped = FALSE
  /\ api = ApiIdle
  /\ assigned = {}
  /\ cl = ColdCluster
  /\ hostsFile = NoHosts
  /\ names = NoNames
  /\ sh = ShIdle

NextCluster ==
  \/ \E n \in Nodes : ClStatus(n)
  \/ \E n \in Nodes : ClProbe(n)
  \/ \E n \in Nodes : ClElect(n)
  \/ \E n \in Nodes : ClInitiate(n)
  \/ \E n \in Nodes : ClCreateUser(n)
  \/ \E n \in Nodes : ClPoll(n)
  \/ \E n \in Nodes : ClTakeover(n)
  \/ \E n \in Nodes : ClEngineJoin(n)
  \/ \E n \in Nodes : ClReconcile(n)

SpecCluster == InitCluster /\ [][NextCluster]_vars

\* The controllers keep running and the heartbeats keep being sent: the
\* cluster does not halt while a step is possible.  (Every step of the
\* cold start is progress, so this is all the scheduling the properties
\* need.)
SpecClusterFair == SpecCluster /\ WF_vars(NextCluster)

(***************************************************************************)
(* SpecHosts: /etc/hosts of one node in production mode (neither           *)
(* FLUX_API_OVERRIDE nor TEST_PUBLIC_IP is set).  The entrypoint writes    *)
(* the loopback line, then the controller determines its identity and      *)
(* appends the peers' lines at bootstrap and in every cycle.  A line is    *)
(* [ip, name]; hostsFile.publicIP is PUBLIC_IP of the entrypoint and       *)
(* hostsFile.myIP the identity of the controller, hostsFile.via the branch  *)
(* of bootstrap that assigned it.                                          *)
(***************************************************************************)
Loopback == <<"1", "2", "7", ".", "0", ".", "0", ".", "1">>

\* The address the node has on the Internet, and the one of its interface.
PublicAddress == IP2
PrivateAddress == <<"1", "7", "2", ".", "1", "7", ".", "0", ".", "2">>

\* "$HOSTNAME_IP $PUBLIC_HOSTNAME", `${ip} ${hostname}`
LineText(line) == line.ip \o <<" ">> \o line.name

\* s.includes(p), grep -q p
Includes(s, p) ==
  \E k \in 1..(Len(s) - Len(p) + 1) : SubSeq(s, k, k + Len(p) - 1) = p

\* hostsContent.includes(hostname): a hostname holds no newline, so it is
\* found inside one line.
HostsInclude(lines, hostname) ==
  \E i \in 1..Len(lines) : Includes(LineText(lines[i]), hostname)

\* The entrypoint: if PUBLIC_IP is non-empty and grep does not find the
\* hostname, echo "127.0.0.1 $PUBLIC_HOSTNAME" >> /etc/hosts.
EntrypointHosts(lines, PUBLIC_IP) ==
  IF PUBLIC_IP # <<>> /\ ~HostsInclude(lines, HostnameOf(PUBLIC_IP))
  THEN Append(lines, [ip |-> Loopback, name |-> HostnameOf(PUBLIC_IP)])
  ELSE lines

RECURSIVE updateHostsFileAlwaysAppend(_, _)
\* Mutant: the line is appended without the test for the hostname.
updateHostsFileAlwaysAppend(lines, peerIPs) ==
  IF peerIPs = <<>> THEN lines
  ELSE updateHostsFileAlwaysAppend(
         Append(lines, [ip |-> Head(peerIPs), name |-> HostnameOf(Head(peerIPs))]),
         Tail(peerIPs))

RECURSIVE updateHostsFile(_, _)
\* updateHostsFile(peerIPs): for each ip in order, append `${ip} ${hostname}`
\* unless the content already includes the hostname.
updateHostsFile(lines, peerIPs) ==
  IF peerIPs = <<>> THEN lines
  ELSE updateHostsFile(
         IF HostsInclude(lines, HostnameOf(Head(peerIPs))) THEN lines
         ELSE Append(lines, [ip |-> Head(peerIPs), name |-> HostnameOf(Head(peerIPs))]),
         Tail(peerIPs))

\* The identity chain of bootstrap: NODE_PUBLIC_IP, else the detected
\* public IP, else the single address of the registry, else the private IP.
\* <<>> stands for unset, null and (as a result) process.exit(1).
DetermineIdentity(NODE_PUBLIC_IP, publicIP, allIPs, privateIP) ==
  IF NODE_PUBLIC_IP # <<>> THEN NODE_PUBLIC_IP
  ELSE IF publicIP # <<>> THEN publicIP
  ELSE IF Len(allIPs) = 0 THEN <<>>
  ELSE IF Len(allIPs) = 1 THEN allIPs[1]
  ELSE privateIP

\* The branch of the identity chain that is taken.
IdentityBranch(NODE_PUBLIC_IP, publicIP, allIPs) ==
  IF NODE_PUBLIC_IP # <<>> THEN "NODE_PUBLIC_IP"
  ELSE IF publicIP # <<>> THEN "getPublicIP"
  ELSE IF Len(allIPs) = 0 THEN "exit"
  ELSE IF Len(allIPs) = 1 THEN "single"
  ELSE "fallback"

\* main() of the entrypoint: PUBLIC_IP=$(curl ipify || echo "").
HostsEntrypoint ==
  /\ hostsFile.pc = "entrypoint"
  /\ \E PUBLIC_IP \in {PublicAddress, <<>>} :
       hostsFile' = [hostsFile EXCEPT
                       !.publicIP = PUBLIC_IP,
                       !.lines = EntrypointHosts(@, PUBLIC_IP),
                       !.pc = "identity"]
  /\ UNCHANGED <<pc, engine, mongoClient, cyc, boot, gate, wiped, assigned, cl, names, sh, api>>

\* bootstrap() up to myHostname: NODE_PUBLIC_IP is unset or the node's
\* public address; getPublicIP() returns it or null.
HostsIdentity(registry) ==
  /\ hostsFile.pc = "identity"
  /\ \E NODE_PUBLIC_IP \in {<<>>, PublicAddress},
        publicIP \in {<<>>, PublicAddress},
        resp \in registry :
       \E id \in {DetermineIdentity(NODE_PUBLIC_IP, publicIP,
                                     fetchAllIPs(resp), PrivateAddress)},
          branch \in {IdentityBranch(NODE_PUBLIC_IP, publicIP, fetchAllIPs(resp))} :
         hostsFile' = [hostsFile EXCEPT
                         !.myIP = IF branch = "exit" THEN <<>> ELSE id,
                         !.via = branch,
                         !.pc = IF branch = "exit" THEN "exited" ELSE "bootstrap"]
  /\ UNCHANGED <<pc, engine, mongoClient, cyc, boot, gate, wiped, assigned, cl, names, sh, api>>

\* bootstrap(): allIPs = fetchAllIPs(); peerIPs = allIPs.filter(ip => ip !==
\* myIP); if (peerIPs.length > 0) updateHostsFile(peerIPs).
HostsBootstrap(registry) ==
  /\ hostsFile.pc = "bootstrap"
  /\ \E resp \in registry :
       hostsFile' = [hostsFile EXCEPT
                       !.lines = updateHostsFile(@, fetchPeerIPs(resp, hostsFile.myIP)),
                       !.pc = "loop"]
  /\ UNCHANGED <<pc, engine, mongoClient, cyc, boot, gate, wiped, assigned, cl, names, sh, api>>

\* One cycle: peerIPs = fetchPeerIPs() in reconciliationLoop, then
\* updateHostsFile(peerIPs), the first statement of reconcileReplicaSet.
HostsCycle(registry) ==
  /\ hostsFile.pc = "loop"
  /\ \E resp \in registry :
       hostsFile' = [hostsFile EXCEPT
                       !.lines = updateHostsFile(@, fetchPeerIPs(resp, hostsFile.myIP))]
  /\ UNCHANGED <<pc, engine, mongoClient, cyc, boot, gate, wiped, assigned, cl, names, sh, api>>

InitHosts == InitCluster

\* The registry over the life of the deployment: nodes come and go.
HostsRegistryResponses ==
  RegistryResponses \cup WideRegistryResponses
    \cup { [status |-> "success", data |-> <<IP3, IP2>>],
           [status |-> "success", data |-> <<IP2, WithPort(IP4)>>],
           [status |-> "success", data |-> <<IP5, IP2>>] }

NextHosts ==
  \/ HostsEntrypoint
  \/ HostsIdentity(HostsRegistryResponses)
  \/ HostsBootstrap(HostsRegistryResponses)
  \/ HostsCycle(HostsRegistryResponses)

SpecHosts == InitHosts /\ [][NextHosts]_vars

(***************************************************************************)
(* SpecNames: the hostname derivations of the repository, applied to two   *)
(* IPv4 addresses.                                                         *)
(***************************************************************************)
\* The decimal octets of the model.
Octets == {<<"1">>, <<"1", "1">>, <<"0">>}

\* a.b.c.d
Dotted(a, b, c, d) == a \o <<".">> \o b \o <<".">> \o c \o <<".">> \o d

Addresses == {Dotted(a, b, c, d) : a \in {<<"1">>, <<"1", "1">>}, b, c \in Octets,
                                   d \in {<<"1">>, <<"1", "1">>}}

\* bootstrap: myHostname = `mongo-${myIP.replace(/\./g, '-')}.mongo-cluster`
myHostnameOf(ip) ==
  <<"m", "o", "n", "g", "o", "-">> \o ReplaceDots(ip)
    \o <<".", "m", "o", "n", "g", "o", "-", "c", "l", "u", "s", "t", "e", "r">>

\* updateHostsFile: hostname = `mongo-${ip.replace(/\./g, '-')}.mongo-cluster`
hostsEntryHostname(ip) ==
  <<"m", "o", "n", "g", "o", "-">> \o ReplaceDots(ip)
    \o <<".", "m", "o", "n", "g", "o", "-", "c", "l", "u", "s", "t", "e", "r">>

\* checkPeersForReplicaSet: peerHostname =
\* `mongo-${peerIP.replace(/\./g, '-')}.mongo-cluster`
peerHostname(peerIP) ==
  <<"m", "o", "n", "g", "o", "-">> \o ReplaceDots(peerIP)
    \o <<".", "m", "o", "n", "g", "o", "-", "c", "l", "u", "s", "t", "e", "r">>

\* entrypoint: PUBLIC_HOSTNAME="mongo-${PUBLIC_IP//./-}.mongo-cluster"
PUBLIC_HOSTNAME(PUBLIC_IP) ==
  <<"m", "o", "n", "g", "o", "-">>
    \o [i \in 1..Len(PUBLIC_IP) |-> IF PUBLIC_IP[i] = "." THEN "-" ELSE PUBLIC_IP[i]]
    \o <<".", "m", "o", "n", "g", "o", "-", "c", "l", "u", "s", "t", "e", "r">>

InitNames ==
  /\ pc = "boot_status"
  /\ engine = [primary |-> FALSE, config |-> NoConfig]
  /\ mongoClient = "connected"
  /\ cyc = EmptyCycle
  /\ boot = EmptyBoot
  /\ gate = EmptyGate
  /\ wiped = FALSE
  /\ api = ApiIdle
  /\ assigned = {}
  /\ cl = ColdCluster
  /\ hostsFile = NoHosts
  /\ sh = ShIdle
  /\ names \in [pc : {"input"}, a : Addresses, b : Addresses]

\* The five places that derive a hostname, for a; the member hostname of b.
DeriveNames ==
  /\ names.pc = "input"
  /\ names' = [pc |-> "derived", a |-> names.a, b |-> names.b,
               self |-> myHostnameOf(names.a),
               hostsEntry |-> hostsEntryHostname(names.a),
               probe |-> peerHostname(names.a),
               member |-> HostnameOf(names.a),
               entrypoint |-> PUBLIC_HOSTNAME(names.a),
               other |-> HostnameOf(names.b)]
  /\ UNCHANGED <<pc, engine, mongoClient, cyc, boot, gate, wiped, assigned, cl,
                 hostsFile, sh, api>>

NextNames == DeriveNames

SpecNames == InitNames /\ [][NextNames]_vars

(***************************************************************************)
(* SpecShell: the reconciliation loop of entrypoint.sh on one node, beside *)
(* its engine.  sh.members are the hosts of rs.config(); sh.ops are the    *)
(* rs.add / rs.remove commands of the current cycle, each with the result  *)
(* of the is_primary that preceded it (checked), what had been observed    *)
(* of a lost PRIMARY by then (lost) and whether the engine applied it.     *)
(***************************************************************************)
max_failures == 5

\* get_current_ip of the node.
ShSelf == IP1

\* '${ip}:${MONGO_PORT}'
ShHost(ip) == ip \o <<":">> \o MONGO_PORT

RECURSIVE Unique(_)
\* The first occurrence of every element, in order.
Unique(seq) ==
  IF seq = <<>> THEN <<>>
  ELSE LET rest == Unique(SubSeq(seq, 1, Len(seq) - 1))
       IN  IF seq[Len(seq)] \in Range(rest) THEN rest
           ELSE Append(rest, seq[Len(seq)])

\* fetch_peer_ips: "" when curl fails; else jq '.data[]?.ip', sed 's/:.*$//',
\* sort -u, and the words that read -ra splits the line into.
fetch_peer_ips(resp) ==
  IF resp.status = "unreachable" THEN <<>>
  ELSE SortStrings(Unique(SelectSeq(
         [i \in 1..Len(resp.data) |-> SplitColonFirst(resp.data[i])],
         LAMBDA ip : ip # <<>>)))

\* get_current_members: config.members.map(m => m.host.split(':')[0])
get_current_members(members) ==
  [i \in 1..Len(members) |-> SplitColonFirst(members[i])]

\* members_to_remove: the current members that are not desired.
members_to_remove(current, desired) ==
  Len(SelectSeq(current, LAMBDA ip : ip \notin Range(desired)))

\* Mutant: removing exactly half of the members is allowed too.
RemovalAllowedUpToHalf(n, total) == n > 0 /\ n <= total \div 2

\* [ $members_to_remove -gt 0 ] && [ $members_to_remove -lt $((total_members / 2)) ]
RemovalAllowed(n, total) == n > 0 /\ n < total \div 2

\* Mutant: add_member and remove_member go on whatever is_primary returned.
MemberCheckPassesAlways(isPrimaryNow) == TRUE

\* if ! is_primary; then return 1; fi in add_member and remove_member
MemberCheckPasses(isPrimaryNow) == isPrimaryNow

\* The main loop after perform_reconciliation returned: consecutive_failures
\* is reset on success, else incremented, and restart_on_failure is called
\* at max_failures.
AfterCycle(s, succeeded) ==
  IF succeeded THEN [s EXCEPT !.failures = 0, !.pc = "sleep"]
  ELSE [s EXCEPT !.failures = @ + 1,
                 !.pc = IF s.failures + 1 >= max_failures THEN "restart" ELSE "sleep"]

\* The result of is_primary is noted.
Checked(s, isPrimaryNow, where) ==
  [s EXCEPT !.lastCheck = isPrimaryNow,
            !.lost = IF isPrimaryNow THEN @
                     ELSE IF @ = "loop" \/ where = "loop" THEN "loop" ELSE "member"]

shOthers ==
  <<pc, engine, mongoClient, cyc, boot, gate, wiped, assigned, cl, hostsFile,
    names, api>>

\* The engine gains or loses PRIMARY (an election, a step-down).
ShElection ==
  /\ sh.pc # "none"
  /\ sh' = [sh EXCEPT !.primary = ~@]
  /\ UNCHANGED shOthers

\* while true: sleep; is_primary for the change detection; was_primary.
ShLoopTop ==
  /\ sh.pc = "sleep"
  /\ sh' = [sh EXCEPT !.wasPrimary = sh.primary, !.pc = "perform",
                       !.ops = <<>>, !.lost = "none", !.lastCheck = FALSE,
                       !.current = <<>>, !.toRemove = 0, !.i = 0]
  /\ UNCHANGED shOthers

\* perform_reconciliation: if ! is_primary; then return 0
ShPerform ==
  /\ sh.pc = "perform"
  /\ sh' = IF sh.primary THEN [Checked(sh, TRUE, "loop") EXCEPT !.pc = "fetch"]
           ELSE AfterCycle([sh EXCEPT !.lastCheck = FALSE], TRUE)
  /\ UNCHANGED shOthers

\* DESIRED_IPS=$(fetch_peer_ips); empty: return 1
ShFetch(registry) ==
  /\ sh.pc = "fetch"
  /\ \E resp \in registry :
       \E DESIRED_IPS \in {fetch_peer_ips(resp)} :
         sh' = IF DESIRED_IPS = <<>>
               THEN AfterCycle([sh EXCEPT !.desired = <<>>], FALSE)
               ELSE [sh EXCEPT !.desired = DESIRED_IPS, !.pc = "recheck"]
  /\ UNCHANGED shOthers

\* perform_reconciliation: the double check before reconcile_cluster
ShRecheck ==
  /\ sh.pc = "recheck"
  /\ sh' = IF sh.primary THEN [Checked(sh, TRUE, "loop") EXCEPT !.pc = "read"]
           ELSE AfterCycle(Checked(sh, FALSE, "loop"), FALSE)
  /\ UNCHANGED shOthers

\* reconcile_cluster: current_members=$(get_current_members); empty: return 1
ShReadMembers ==
  /\ sh.pc = "read"
  /\ \E current \in {get_current_members(sh.members)} :
       sh' = IF current = <<>> THEN AfterCycle(sh, FALSE)
             ELSE [sh EXCEPT !.current = current, !.i = 1, !.pc = "add_loop"]
  /\ UNCHANGED shOthers

\* One iteration of "Add new members": is_primary, then the search of
\* desired_ip in current_array; after the last, the count of stale members
\* and the safety check.
ShAddLoop ==
  /\ sh.pc = "add_loop"
  /\ sh' =
       IF sh.i > Len(sh.desired)
       THEN LET n == members_to_remove(sh.current, sh.desired)
            IN  IF RemovalAllowed(n, Len(sh.current))
                THEN [sh EXCEPT !.toRemove = n, !.i = 1, !.pc = "remove_loop"]
                ELSE AfterCycle([sh EXCEPT !.toRemove = n], TRUE)
       ELSE IF ~sh.primary THEN AfterCycle(Checked(sh, FALSE, "loop"), FALSE)
       ELSE IF sh.desired[sh.i] \in Range(sh.current)
       THEN [Checked(sh, TRUE, "loop") EXCEPT !.i = @ + 1]
       ELSE [Checked(sh, TRUE, "loop") EXCEPT !.pc = "add_member"]
  /\ UNCHANGED shOthers

\* add_member: the check; return 1 is not looked at by reconcile_cluster,
\* which sleeps 2 s and takes the next desired_ip.
ShAddMemberCheck ==
  /\ sh.pc = "add_member"
  /\ sh' = IF MemberCheckPasses(sh.primary)
           THEN [Checked(sh, sh.primary, "member") EXCEPT !.pc = "rs_add"]
           ELSE [Checked(sh, FALSE, "member") EXCEPT !.i = @ + 1, !.pc = "add_loop"]
  /\ UNCHANGED shOthers

\* add_member: rs.add('${ip}:${MONGO_PORT}'); the engine refuses when it is
\* not PRIMARY or the host is a member already.
ShRsAdd ==
  /\ sh.pc = "rs_add"
  /\ LET ip == sh.desired[sh.i]
         applied == sh.primary /\ ShHost(ip) \notin Range(sh.members)
     IN  sh' = [sh EXCEPT
                  !.members = IF applied THEN Append(@, ShHost(ip)) ELSE @,
                  !.ops = Append(@, [op |-> "add", ip |-> ip,
                                     checked |-> sh.lastCheck, lost |-> sh.lost,
                                     applied |-> applied]),
                  !.i = @ + 1, !.pc = "add_loop"]
  /\ UNCHANGED shOthers

\* One iteration of the removal loop: is_primary, then the search of
\* current_ip in desired_array.
ShRemoveLoop ==
  /\ sh.pc = "remove_loop"
  /\ sh' =
       IF sh.i > Len(sh.current) THEN AfterCycle(sh, TRUE)
       ELSE IF ~sh.primary THEN AfterCycle(Checked(sh, FALSE, "loop"), FALSE)
       ELSE IF sh.current[sh.i] \in Range(sh.desired)
       THEN [Checked(sh, TRUE, "loop") EXCEPT !.i = @ + 1]
       ELSE [Checked(sh, TRUE, "loop") EXCEPT !.pc = "remove_member"]
  /\ UNCHANGED shOthers

\* remove_member: the check.
ShRemoveMemberCheck ==
  /\ sh.pc = "remove_member"
  /\ sh' = IF MemberCheckPasses(sh.primary)
           THEN [Checked(sh, sh.primary, "member") EXCEPT !.pc = "rs_remove"]
           ELSE [Checked(sh, FALSE, "member") EXCEPT !.i = @ + 1, !.pc = "remove_loop"]
  /\ UNCHANGED shOthers

\* remove_member: rs.remove('${ip}:${MONGO_PORT}'); the engine refuses when
\* it is not PRIMARY, the host is no member, or the host is its own.
ShRsRemove ==
  /\ sh.pc = "rs_remove"
  /\ LET ip == sh.current[sh.i]
         applied == /\ sh.primary
                    /\ ShHost(ip) \in Range(sh.members)
                    /\ ip # ShSelf
     IN  sh' = [sh EXCEPT
                  !.members = IF applied
                              THEN SelectSeq(@, LAMBDA h : h # ShHost(ip)) ELSE @,
                  !.ops = Append(@, [op |-> "remove", ip |-> ip,
                                     checked |-> sh.lastCheck, lost |-> sh.lost,
                                     applied |-> applied]),
                  !.i = @ + 1, !.pc = "remove_loop"]
  /\ UNCHANGED shOthers

\* restart_on_failure: pkill mongod, sleep, exec "$0": the script and the
\* engine start again, the engine as a SECONDARY of the set it belongs to.
ShRestart ==
  /\ sh.pc = "restart"
  /\ sh' = [sh EXCEPT !.pc = "sleep", !.primary = FALSE, !.wasPrimary = FALSE,
                       !.failures = 0, !.desired = <<>>, !.current = <<>>,
                       !.ops = <<>>, !.lost = "none", !.lastCheck = FALSE,
                       !.toRemove = 0, !.i = 0]
  /\ UNCHANGED shOthers

\* The registry as the shell controller sees it.
ShRegistryResponses ==
  { [status |-> "unreachable", data |-> <<>>],
    [status |-> "success",     data |-> <<IP3, IP1, IP2>>],
    [status |-> "success",     data |-> <<WithPort(IP2), IP1, IP2>>],
    [status |-> "success",     data |-> <<IP4, IP3, WithPort(IP2), IP1>>],
    [status |-> "success",     data |-> <<IP1, IP2, IP4>>],
    [status |-> "success",     data |-> <<IP5, IP4, IP2, IP1>>] }

InitShell ==
  /\ pc = "boot_status"
  /\ engine = [primary |-> FALSE, config |-> NoConfig]
  /\ mongoClient = "connected"
  /\ cyc = EmptyCycle
  /\ boot = EmptyBoot
  /\ gate = EmptyGate
  /\ wiped = FALSE
  /\ api = ApiIdle
  /\ assigned = {}
  /\ cl = ColdCluster
  /\ hostsFile = NoHosts
  /\ names = NoNames
  /\ \E primary \in BOOLEAN :
       sh = [pc |-> "sleep", primary |-> primary,
             members |-> <<ShHost(IP1), ShHost(IP2), ShHost(IP3)>>,
             wasPrimary |-> FALSE, failures |-> 0, desired |-> <<>>,
             current |-> <<>>, i |-> 0, lastCheck |-> FALSE, lost |-> "none",
             ops |-> <<>>, toRemove |-> 0]

\* The steps of the controller.
ShController ==
  \/ ShLoopTop
  \/ ShPerform
  \/ ShFetch(ShRegistryResponses)
  \/ ShRecheck
  \/ ShReadMembers
  \/ ShAddLoop
  \/ ShAddMemberCheck
  \/ ShRsAdd
  \/ ShRemoveLoop
  \/ ShRemoveMemberCheck
  \/ ShRsRemove
  \/ ShRestart

NextShell == ShElection \/ ShController

SpecShell == InitShell /\ [][NextShell]_vars

\* The script keeps running: while true; do sleep ...; done.
SpecShellFair == SpecShell /\ WF_vars(ShController)


(***************************************************************************)
(* Properties of the single controller.                                    *)
(***************************************************************************)
\* C1: nuclearResync deletes the data directory only when a responsive
\* peer's /oplog timestamp is strictly greater than the local one; a missing
\* local timestamp counts as older than any peer's.
\* (Violated: with no local timestamp and no peer timestamp the wipe runs.)
C1_WipeOnlyWhenPeerNewer ==
  wiped => gate.evidence \in {"peerNewer", "peerOnly"}

\* C2: a cycle that submits replSetReconfig evaluated isPrimary() twice, both
\* true, the second time right before the submit, and the engine had not
\* lost PRIMARY when the submit was made.
\* (Violated: isPrimary() is evaluated once, at the start of the cycle.)
C2_PrimaryRecheckedBeforeSubmit ==
  cyc.submitted # NoConfig =>
    /\ Len(cyc.primaryChecks) >= 2
    /\ \A i \in 1..Len(cyc.primaryChecks) : cyc.primaryChecks[i]
    /\ cyc.submitPrimary

\* C3: a cycle whose registry fetches both fail or come back empty submits
\* no replSetReconfig and issues no step-down.
\* (Violated: the empty peer list makes every other member a removal.)
C3_NoMutationDuringOutage ==
  (cyc.reg1Down /\ cyc.fetchedAll /\ cyc.totalKnownNodes = 0) =>
    (cyc.submitted = NoConfig /\ cyc.stepDowns = <<>>)

\* A member of `read` and a member of `submitted` that share the _id or the
\* host are the same member.
MembersPreserved(read, submitted) ==
  \A i \in 1..Len(read.members), j \in 1..Len(submitted.members) :
    (\/ read.members[i]._id = submitted.members[j]._id
     \/ read.members[i].host = submitted.members[j].host)
    => read.members[i] = submitted.members[j]

\* C4: in every replSetReconfig submitted, by the reconciler or by the
\* bootstrap self-heal, a member present in the config read and in the
\* config submitted has the same _id and the same host in both.
C4_MemberIdsStable ==
  /\ cyc.submitted # NoConfig => MembersPreserved(cyc.read, cyc.submitted)
  /\ boot.submitted # NoConfig => MembersPreserved(boot.read, boot.submitted)

\* C4 witness: a reconfigure that keeps a member, drops one and adds one.
C4_Witness ==
  /\ cyc.submitted # NoConfig
  /\ \E m \in Range(cyc.read.members) : m \in Range(cyc.submitted.members)
  /\ \E m \in Range(cyc.read.members) : m \notin Range(cyc.submitted.members)
  /\ \E m \in Range(cyc.submitted.members) : m \notin Range(cyc.read.members)

\* The state right after the consensus check of a cycle.
AfterConsensus == cyc.consensusRan /\ pc \in {"rec_getConfig", "sb_stepDown"}

\* C5: with N > 1 known nodes, split-brain recovery is entered exactly when
\* some host other than '<self-hostname>:<port>' is named by at least
\* floor(N/2)+1 of the /primary answers; otherwise the cycle goes on to the
\* membership sync with no step-down.
\* (Violated when the registry list shrinks between the two fetches of a
\* cycle: two hosts reach the threshold and the first one named wins.)
C5_SplitBrainIffOtherMajority ==
  AfterConsensus =>
    /\ cyc.splitBrain <=>
         \E h \in NamedHosts :
           /\ h # myPrimaryHost
           /\ cyc.named[h] >= (cyc.totalKnownNodes \div 2) + 1
    /\ ~cyc.splitBrain => (pc = "rec_getConfig" /\ cyc.stepDowns = <<>>)

\* The count primaryVotes holds for a host.
VoteCount(votes, h) ==
  IF \E i \in 1..Len(votes) : votes[i].host = h
  THEN votes[CHOOSE i \in 1..Len(votes) : votes[i].host = h].count
  ELSE 0

\* C6: after checkPeerPrimaryConsensus every entry of primaryVotes is a host
\* that some peer named in an OK answer, each host's count is the number of
\* peers that answered OK naming it, and a controller that reached no peer
\* declares no split-brain.
C6_AbstentionsAreNotVotes ==
  AfterConsensus =>
    /\ \A i \in 1..Len(cyc.votes) : cyc.votes[i].host \in NamedHosts
    /\ \A h \in NamedHosts : VoteCount(cyc.votes, h) = cyc.named[h]
    /\ cyc.reachable = 0 => ~cyc.splitBrain

\* C6 witness: a check in which a peer was unreachable, a peer answered OK
\* with no primary, and a peer named a host.
C6_Witness ==
  /\ AfterConsensus
  /\ cyc.reachable < Len(cyc.peerIPs)
  /\ \E h \in NamedHosts : cyc.named[h] >= 1

\* C9: in the stale-primary check, with the local timestamp read and the
\* same at both reads, replSetStepDown: 300 is issued exactly when some
\* responsive peer's timestamp is strictly greater in (seconds, counter)
\* order.
\* (Violated: with equal seconds and a greater counter no step-down.)
C9_StalePrimaryStepsDown ==
  (gate.by = "stale" /\ gate.my # <<>> /\ gate.my2 = gate.my) =>
    ((\E i \in 1..Len(boot.stepDowns) : boot.stepDowns[i] = StepDownStalePrimary)
       <=> gate.evidence = "peerNewer")

\* C10: the forced single-member replSetReconfig of bootstrap is submitted
\* only when the status shows more than one member, one healthy member and
\* no PRIMARY, and no responsive peer's timestamp is newer than the local
\* one; when a peer's is newer nothing is submitted; the forced config is
\* this node's member, as it was, with version + 1.
C10_ForcedReconfigGate ==
  /\ boot.submitted # NoConfig =>
       /\ SelfHealCondition(boot.status)
       /\ gate.by = "heal"
       /\ gate.evidence \in {"selfLatest", "none"}
       /\ Len(boot.submitted.members) = 1
       /\ boot.submitted.members[1] \in Range(boot.read.members)
       /\ boot.submitted.members[1].host = myPrimaryHost
       /\ boot.submitted.version = boot.read.version + 1
  /\ (gate.by = "heal" /\ gate.evidence = "peerNewer") =>
       (pc = "boot_done" /\ boot.submitted = NoConfig)

\* C10 witness: the forced reconfigure is submitted although a peer
\* answered, with a timestamp equal to the local one.
C10_Witness ==
  /\ boot.submitted # NoConfig
  /\ gate.my # <<>>
  /\ gate.my \in gate.peerTs

\* C11: whatever the registry returned, the desired set of a cycle holds
\* this node's hostname, the removal set does not, and the config the
\* cycle submits has the member whose host is '<self-hostname>:<port>'.
C11_SelfAlwaysKept ==
  /\ pc = "rec_submit" =>
       /\ myHostname \in Range(desiredMembers(myIP, cyc.peerIPs))
       /\ myHostname \notin Range(toRemove(cyc.read, myIP, cyc.peerIPs))
  /\ cyc.submitted # NoConfig =>
       \E m \in Range(cyc.submitted.members) : m.host = myPrimaryHost

\* C11 witness: a config is submitted in a cycle whose registry list was
\* empty or left this node out, and it drops another member.
C11_Witness ==
  /\ cyc.submitted # NoConfig
  /\ cyc.fetchedAll
  /\ cyc.totalKnownNodes = Len(cyc.peerIPs)
  /\ Len(cyc.submitted.members) < Len(cyc.read.members) + Len(cyc.peerIPs)

\* The controller is inside a reconciliation cycle.
InCycle == pc \notin {"boot_status", "boot_heal_fetch", "boot_stale_fetch",
                      "boot_heal_gate", "boot_heal_submit", "boot_stale_gate",
                      "boot_done", "loop", "exited"}

\* The hostnames of the config are the desired set: self plus the peers.
DesiredEqualsCurrent(config, peers) ==
  Range(currentMembers(config)) = Range(desiredMembers(myIP, peers))

\* C12: a cycle whose desired set equals the hostname set of the current
\* config submits no replSetReconfig and leaves the config and its version
\* as they were; when no split-brain is declared it issues no step-down
\* and no wipe either.
C12_InSyncCycleIsNoOp ==
  [][(InCycle /\ cyc.submitted = NoConfig
        /\ DesiredEqualsCurrent(engine.config, cyc.peerIPs))
      => /\ pc # "rec_submit"
         /\ cyc'.submitted = NoConfig
         /\ (cyc.via = "none" /\ ~cyc.splitBrain /\ pc # "rec_consensus")
              => /\ engine'.config = engine.config
                 /\ cyc'.stepDowns = <<>>
                 /\ wiped' = wiped
                 /\ pc' \in {"rec_fetchAll", "rec_consensus", "rec_getConfig",
                              "rec_done", "loop", pc}]_vars

\* C12 witness: a cycle with two peers read a config in sync with them,
\* after a consensus check, and ended.
C12_Witness ==
  /\ pc = "rec_done"
  /\ cyc.consensusRan
  /\ cyc.read # NoConfig
  /\ Len(cyc.peerIPs) >= 2
  /\ DesiredEqualsCurrent(cyc.read, cyc.peerIPs)
  /\ cyc.submitted = NoConfig

\* bootstrap has read the status and has not yet started the loop.
InBootstrap == pc \in {"boot_heal_fetch", "boot_stale_fetch", "boot_heal_gate",
                       "boot_heal_submit", "boot_stale_gate", "boot_done"}

\* The status shows a reachable set: a PRIMARY, or more than one healthy
\* member.
ReachableSet(members) ==
  \/ \E i \in 1..Len(members) : members[i].state = 1
  \/ Cardinality({i \in 1..Len(members) : members[i].health = 1}) > 1

\* C13: a bootstrap whose replSetGetStatus shows a reachable set never
\* enters the forced reconfigure, leaves the engine's config as it was,
\* wipes nothing, and issues at most the one replSetStepDown: 300 of the
\* stale-primary check.  (The engine is left in a state bootstrap can
\* start from, with the same config, so the same holds for the next run.)
C13_BootstrapOnReachableSetIsNoOp ==
  [][(InBootstrap /\ boot.status # <<>> /\ ReachableSet(boot.status))
      => /\ boot.branch \in {"stale", "none"}
         /\ pc' \notin {"boot_heal_fetch", "boot_heal_gate", "boot_heal_submit"}
         /\ engine'.config = engine.config
         /\ engine.config \in InitialConfigs
         /\ boot'.submitted = NoConfig
         /\ boot'.stepDowns \in {<<>>, <<StepDownStalePrimary>>}
         /\ wiped' = FALSE]_vars

\* C13 witness: bootstrap found this node PRIMARY beside a healthy member,
\* made the stale-primary check and stepped down.
C13_Witness ==
  /\ pc = "boot_done"
  /\ boot.branch = "stale"
  /\ ReachableSet(boot.status)
  /\ Len(boot.status) > 1
  /\ boot.stepDowns = <<StepDownStalePrimary>>

\* isPrimary() returned false in the current cycle.
NotPrimaryCycle == InCycle /\ cyc.primaryChecks = <<FALSE>>

\* C14: a cycle in which isPrimary() returned false (hello answered not
\* primary, or threw) is over: it has asked no peer, fetched neither the
\* registry list nor the config, submitted no replSetReconfig, issued no
\* replSetStepDown and no wipe, and no step of it changes the config.
C14_NotPrimarySkipsCycle ==
  [][NotPrimaryCycle
      => /\ pc = "rec_done"
         /\ ~cyc.fetchedAll /\ ~cyc.consensusRan
         /\ cyc.read = NoConfig /\ cyc.submitted = NoConfig
         /\ cyc.stepDowns = <<>> /\ cyc.via = "none"
         /\ gate = EmptyGate
         /\ engine'.config = engine.config
         /\ wiped' = wiped
         /\ pc' \in {"rec_done", "loop"}]_vars

\* C14 witness: hello threw on a PRIMARY engine whose config differs from
\* the desired membership, and the cycle was skipped.
C14_Witness ==
  /\ NotPrimaryCycle
  /\ pc = "rec_done"
  /\ engine.primary
  /\ Len(cyc.peerIPs) >= 1
  /\ ~InSync(engine.config, myIP, cyc.peerIPs)

\* The hostnames the registry list brings that the config does not have.
NewHostnames(config, peers) ==
  Range(desiredMembers(myIP, peers)) \ Range(currentMembers(config))

\* The registry list is the membership of the config plus one new address.
OneNewAddress(config, peers) ==
  /\ Range(currentMembers(config)) \subseteq Range(desiredMembers(myIP, peers))
  /\ Cardinality(NewHostnames(config, peers)) = 1

\* C15: a cycle that finds one new address in the registry list submits
\* the config it read plus one member for the new hostname, with
\* _id = max(existing _id) + 1, and version + 1.
C15_NewAddressAddsOneMember ==
  (cyc.submitted # NoConfig /\ OneNewAddress(cyc.read, cyc.peerIPs)) =>
    \E h \in NewHostnames(cyc.read, cyc.peerIPs) :
      cyc.submitted =
        [version |-> cyc.read.version + 1,
         members |-> Append(cyc.read.members,
                            Member(MaxOf(MemberIds(cyc.read.members)) + 1, HostOf(h)))]

\* C16: over all the configs the engine has held, an _id belongs to one
\* host only: the _id of a removed member is not given to another host.
C16_MemberIdsNeverReused ==
  \A p, q \in assigned : p._id = q._id => p.host = q.host

C19_AllIPsStrippedUniqueSorted ==
  cyc.fetchedAll =>
    /\ \A i \in 1..Len(cyc.allIPs) : IndexOfChar(cyc.allIPs[i], ":") = 0
    /\ \A i, j \in 1..Len(cyc.allIPs) :
         i < j => /\ cyc.allIPs[i] # cyc.allIPs[j]
                  /\ ~StrLess(cyc.allIPs[j], cyc.allIPs[i])

\* The positions of the membership sync of a cycle.
SyncSteps == {"rec_getConfig", "rec_submit", "rec_mismatch"}

\* C29: the controller's step after a split-brain verdict is
\* replSetStepDown: 60, its next one the reconnect and the status read; nuclearResync is entered
\* from there only when the status was not an initialized set readable by
\* this node (notInitialized, needsAuth) or the recovery threw; either way
\* the cycle reads no config and submits no reconfigure.
C29_SplitBrainRecoveryOrder ==
  [][/\ (pc = "rec_consensus" /\ cyc'.splitBrain) =>
          pc' = "sb_stepDown" /\ cyc'.stepDowns = <<>>
     /\ (pc = "sb_stepDown" /\ pc' # pc) =>
          /\ cyc'.stepDowns = <<StepDownSplitBrain>>
          /\ pc' = "sb_rejoin"
          /\ engine'.config = engine.config /\ wiped' = wiped
     /\ (pc = "sb_rejoin" /\ pc' # pc) =>
          /\ cyc.stepDowns = <<StepDownSplitBrain>>
          /\ cyc'.rejoin = "joined" => pc' = "rec_done" /\ cyc'.via = "none"
          /\ cyc'.rejoin # "joined" => pc' = "nuke_gate" /\ cyc'.via = "splitBrain"
          /\ engine' = engine /\ wiped' = wiped
     /\ (cyc'.via = "splitBrain" /\ cyc.via # "splitBrain") => pc = "sb_rejoin"
     /\ (cyc.splitBrain \/ cyc.via = "splitBrain") =>
          /\ pc \notin SyncSteps /\ pc' \notin SyncSteps
          /\ cyc.read = NoConfig /\ cyc.submitted = NoConfig
          /\ cyc'.submitted = NoConfig
     /\ cyc.via = "splitBrain" =>
          cyc.rejoin \in {"notInitialized", "needsAuth", "throws"}]_vars

\* C29 witness: after a split-brain verdict and a failed rejoin,
\* nuclearResync has run to the deletion of the data.
C29_Witness ==
  /\ cyc.via = "splitBrain"
  /\ cyc.rejoin = "notInitialized"
  /\ wiped
  /\ ~engine.primary

LoopbackNames(lines) ==
  {lines[i].name : i \in {j \in 1..Len(lines) : lines[j].ip = Loopback}}

\* The controller has determined its identity.
IdentityKnown == hostsFile.pc \in {"bootstrap", "loop"}

\* C18: once the controller runs with its identity, exactly one hostname
\* maps to 127.0.0.1 and it is myHostname; no hostname the controller treats
\* as a peer's maps to loopback, and no line maps myHostname to another
\* address.
C18_OnlySelfOnLoopback ==
  IdentityKnown =>
    /\ LoopbackNames(hostsFile.lines) = {HostnameOf(hostsFile.myIP)}
    /\ \A i \in 1..Len(hostsFile.lines) :
         hostsFile.lines[i].name = HostnameOf(hostsFile.myIP)
           => hostsFile.lines[i].ip = Loopback

\* C24: with no override and no detected public address, a registry that
\* lists several members ends the process: the controller is never in
\* bootstrap or in the loop with the identity of the fallback branch.  A
\* registry with exactly one member makes that member the identity.
C24_UnresolvedIdentityExits ==
  /\ hostsFile.via = "fallback" => hostsFile.pc = "exited"
  /\ hostsFile.via = "single" =>
       hostsFile.pc \in {"bootstrap", "loop"} /\ hostsFile.myIP # PrivateAddress
  /\ hostsFile.pc \in {"bootstrap", "loop"} => hostsFile.myIP # PrivateAddress


(***************************************************************************)
(* Properties of the hostname derivation.                                  *)
(***************************************************************************)
\* C25: the derivation yields a hostname for every IPv4 address (the
\* address with '-' for '.', between 'mongo-' and '.mongo-cluster'), two
\* distinct addresses never yield the same hostname, and the five places
\* that derive a hostname yield the same one.
C25_HostnameInjective ==
  names.pc = "derived" =>
    /\ Len(names.member) = 6 + Len(names.a) + 14
    /\ \A i \in 1..Len(names.a) :
         names.member[6 + i] = IF names.a[i] = "." THEN "-" ELSE names.a[i]
    /\ StartsWith(names.member, <<"m", "o", "n", "g", "o", "-">>)
    /\ names.a # names.b => names.member # names.other
    /\ {names.self, names.hostsEntry, names.probe, names.entrypoint} = {names.member}

\* C25 witness: two distinct addresses with the same digits in the same
\* order, which differ only in where the dots are, and their hostnames.
C25_Witness ==
  /\ names.pc = "derived"
  /\ names.a # names.b
  /\ SelectSeq(names.a, LAMBDA c : c # ".") = SelectSeq(names.b, LAMBDA c : c # ".")


(***************************************************************************)
(* Properties of the controller of entrypoint.sh.                          *)
(***************************************************************************)
\* The controller of entrypoint.sh runs.
ShRunning == sh.pc # "none"

\* The rs.remove commands of the current cycle.
Removals == SelectSeq(sh.ops, LAMBDA o : o.op = "remove")

\* C26 as claimed: every rs.add and rs.remove follows an is_primary that
\* returned true, and none is submitted once any is_primary of the cycle
\* has returned false.
C26_NoCommandAfterLostPrimary ==
  ShRunning =>
    \A k \in 1..Len(sh.ops) : sh.ops[k].checked /\ sh.ops[k].lost = "none"

\* C26, amended: every rs.add and rs.remove follows an is_primary, inside
\* add_member or remove_member, that returned true; a false result there
\* skips that member only, and no command is submitted once the check of
\* perform_reconciliation or of a loop of reconcile_cluster has returned
\* false: the cycle has ended then.
C26_CommandOnlyAfterTrueCheck ==
  ShRunning =>
    /\ \A k \in 1..Len(sh.ops) : sh.ops[k].checked /\ sh.ops[k].lost # "loop"
    /\ sh.pc \in {"rs_add", "rs_remove"} => sh.lastCheck
    /\ sh.lost = "loop" => sh.pc \in {"sleep", "restart"}

\* C26 witness: a command was submitted in a cycle after add_member or
\* remove_member had found the node not PRIMARY and skipped a member.
C26_Witness ==
  /\ ShRunning
  /\ \E k \in 1..Len(sh.ops) : sh.ops[k].lost = "member" /\ sh.ops[k].applied

\* C27: rs.remove is submitted in a cycle only when the count of current
\* members that are not desired is positive and smaller than half the
\* count of current members (integer division), so the removals of one
\* cycle are fewer than half of the members; otherwise none is submitted.
C27_NeverRemovesMajority ==
  ShRunning =>
    /\ sh.pc \in {"remove_loop", "remove_member", "rs_remove"} \/ Removals # <<>>
         => /\ sh.toRemove = members_to_remove(sh.current, sh.desired)
            /\ sh.toRemove > 0
            /\ sh.toRemove < Len(sh.current) \div 2
    /\ Len(Removals) <= sh.toRemove
    /\ 2 * Len(Removals) < Len(sh.current) \/ Removals = <<>>

\* C27 witness: a cycle has removed the one stale member of four.
C27_Witness ==
  /\ ShRunning
  /\ sh.pc = "sleep"
  /\ Len(sh.current) = 4
  /\ \E k \in 1..Len(sh.ops) : sh.ops[k].op = "remove" /\ sh.ops[k].applied

\* C28: a member that the registry, which keeps answering, lists no more
\* while this node stays PRIMARY is eventually no member of the set.
C28_DisappearedMemberRemoved ==
  \A ip \in {IP2, IP3, IP4} :
    <>[](/\ ShRunning /\ sh.primary
         /\ sh.desired # <<>> /\ ip \notin Range(sh.desired)
         /\ sh.failures = 0)
      => <>(ShHost(ip) \notin Range(sh.members))


(***************************************************************************)
(* Properties of the cold start.                                           *)
(***************************************************************************)
\* The smallest address of the registry list, in the order of sort().
LowestNode == ClusterAllIPs[1]

\* C7: when every self-reachability check passes and every peer stays
\* reachable, in every interleaving of the bootstraps only the node with
\* the smallest address calls replSetInitiate.
C7_OnlyLowestInitiates ==
  ~cl.unreachable => cl.initiators \subseteq {LowestNode}

\* C7 witness: the lowest node has initiated, and another node has waited
\* until its wait expired, made the takeover check and not initiated.
C7_Witness ==
  /\ ~cl.unreachable
  /\ cl.initiators = {LowestNode}
  /\ \E n \in cl.waitedOut : cl.bpc[n] = "loop"

ThreeHosts == {ClusterHost[n] : n \in Nodes}

\* The set founded by the lowest node has exactly the three hostnames.
Converged ==
  /\ Len(cl.config[LowestNode].members) = 3
  /\ {m.host : m \in Range(cl.config[LowestNode].members)} = ThreeHosts

\* The lowest node alone has initiated, with itself as the sole member, and
\* has created the root user.
FoundedAlone ==
  /\ cl.initiators = {LowestNode}
  /\ cl.config[LowestNode] =
       [version |-> 1, members |-> <<Member(0, ClusterHost[LowestNode])>>]
  /\ LowestNode \in cl.rootUsers

\* An engine command of bootstrap threw, or a founder went on without a
\* root user.
EngineCommandFailed ==
  \E n \in Nodes :
    \/ cl.bpc[n] = "failed"
    \/ cl.rs[n] = n /\ cl.bpc[n] \in {"loop", "recovery"} /\ n \notin cl.rootUsers

Undisturbed == ~cl.unreachable /\ ~EngineCommandFailed

C20_UnreachableSelfNeverInitiates ==
  \A n \in Nodes :
    /\ cl.selfCheck[n] = "failed" => cl.bpc[n] # "initiate"
    /\ (cl.bpc[n] = "initiate" \/ n \in cl.initiators) => cl.selfCheck[n] = "ok"

\* C20 witness: the lowest node failed its self-check in the election and
\* again in the takeover, and never initiated.
C20_Witness ==
  /\ cl.selfCheck[LowestNode] = "failed"
  /\ LowestNode \in cl.waitedOut
  /\ LowestNode \notin cl.initiators
  /\ cl.bpc[LowestNode] = "loop"

\* The nodes whose latest canReachSelf() succeeded.
SelfReachable == {n \in Nodes : cl.selfCheck[n] = "ok"}

\* The smallest address of a non-empty set of nodes.
LowestOf(S) == CHOOSE n \in S : \A m \in S : ~StrLess(m, n)

\* C21: at cold start, once some node has passed its self-reachability
\* check, eventually exactly one node has called replSetInitiate and it is
\* the lowest address among the nodes that pass the check, also when the
\* overall lowest node fails it.
C21_LowestSelfReachableFounds ==
  (SelfReachable # {}) ~>
    (SelfReachable # {} /\ cl.initiators = {LowestOf(SelfReachable)})

\* C22: a node whose peer probe found an initialized replica set runs no
\* founder election (no canReachSelf(), no takeover check) and never calls
\* replSetInitiate in that bootstrap, whatever its address; it polls its
\* own status within the bound of the wait and goes on to the loop (or its
\* bootstrap ends there, when a status read throws).
C22_JoinerNeverInitiates ==
  \A n \in cl.joiners :
    /\ n \notin cl.initiators
    /\ cl.selfCheck[n] = "none"
    /\ n \notin cl.waitedOut
    /\ cl.bpc[n] \in {"joinWait", "loop", "failed"}
    /\ cl.polls[n] < MaxPolls

\* C22 witness: the node with the smallest address found a peer's set, has
\* finished its wait and never initiated.
C22_Witness ==
  /\ LowestNode \in cl.joiners
  /\ cl.bpc[LowestNode] = "loop"
  /\ LowestNode \notin cl.initiators
  /\ cl.initiators # {}

\* bootstrap() of n has not reached its last statement.
InBootstrapOf(n) ==
  cl.bpc[n] \in {"status", "probe", "joinWait", "elect", "initiate",
                 "createUser", "wait", "takeover"}

\* C23: on every node a reconciliation cycle (a reconfigure, a split-brain
\* verdict) runs only when bootstrap has ended with the start of the loop;
\* the loop is entered from the end of a bootstrap branch, never from the
\* probe or the election, and a node in the loop never runs a bootstrap
\* step again.  Meanwhile the API server of a node in bootstrap answers
\* GET /primary (with a 500 before the engine connection exists).
C23_LoopOnlyAfterBootstrap ==
  [][/\ cl'.reconfigs # cl.reconfigs =>
          \E n \in Nodes : /\ cl.bpc[n] = "loop" /\ cl'.bpc[n] = "loop"
                            /\ ClusterPrimary(n)
                            /\ \A m \in Nodes \ {n} : cl'.config[m] = cl.config[m]
     /\ \A n \in Nodes :
          /\ (cl'.bpc[n] = "recovery" /\ cl.bpc[n] # "recovery") => cl.bpc[n] = "loop"
          /\ (cl'.config[n] # cl.config[n] /\ cl.config[n] # NoConfig)
               => cl.bpc[n] = "loop"
          /\ (cl'.bpc[n] = "loop" /\ cl.bpc[n] # "loop")
               => cl.bpc[n] \in {"status", "joinWait", "initiate", "createUser",
                                 "wait", "takeover"}
          /\ cl.bpc[n] \in {"loop", "recovery"} => cl'.bpc[n] \in {"loop", "recovery"}
          /\ cl.bpc[n] = "failed" => cl'.bpc[n] = "failed"
          /\ InBootstrapOf(n) => PeerPrimaryAnswer(n).kind \in {"ok", "nonOK"}]_vars

\* C23 witness: a node in its loop has reconfigured the set while another
\* node, whose API it asked, was still in bootstrap.
C23_Witness ==
  /\ cl.reconfigs > 0
  /\ \E n \in Nodes : cl.bpc[n] = "loop" /\ ClusterPrimary(n)
                        /\ Len(cl.config[n].members) > 1
  /\ \E m \in Nodes : InBootstrapOf(m)

(***************************************************************************)
(* Errors of replSetReconfig (Spec).                                       *)
(***************************************************************************)
\* C31: a replSetReconfig that fails with a replica-set-ID mismatch is
\* followed, in the same cycle, by nuclearResync(peerIPs), and that call
\* deletes nothing when the oplog comparison shows this node's data to be
\* the latest; any other error of the command ends the cycle: nothing is
\* stepped down, closed, deleted or changed in the engine's config, and
\* the loop goes on.
C31_MismatchEscalatesOthersEndCycle ==
  [][ /\ (pc = "rec_submit" /\ pc' # pc) =>
           /\ cyc'.error = "IdMismatch" => pc' = "rec_mismatch"
           /\ cyc'.error \in {"NotPrimary", "other"} =>
                /\ pc' = "rec_done"
                /\ engine'.config = engine.config
                /\ mongoClient' = mongoClient
                /\ wiped' = wiped
                /\ cyc'.stepDowns = <<>>
                /\ cyc'.via = "none"
      /\ (pc = "rec_mismatch" /\ pc' # pc) =>
           (pc' = "nuke_gate" /\ cyc'.via = "mismatch")
      /\ (pc = "nuke_gate" /\ cyc.via = "mismatch" /\ pc' # pc
             /\ gate'.evidence = "selfLatest") => pc' = "rec_done"
      /\ (cyc.via = "mismatch" /\ wiped' /\ ~wiped) =>
           gate.evidence # "selfLatest"
      /\ (pc = "rec_done" /\ cyc.error # "none" /\ pc' # pc) => pc' = "loop"
    ]_vars

\* A mismatch led to nuclearResync, which found this node's data to be the
\* latest and returned without deleting anything.
C31_Witness ==
  /\ pc = "rec_done"
  /\ cyc.via = "mismatch"
  /\ gate.evidence = "selfLatest"
  /\ ~wiped


\* C32: when the oplog comparison of nuclearResync has no evidence (no
\* local timestamp and no timestamp from any peer), nothing destructive
\* follows: the connection is not closed, the engine is not stopped, the
\* data directory is not deleted and the process does not exit.
\* (Violated: latestDataNode is null and the wipe proceeds.)
C32_NoEvidenceNoWipe ==
  (gate.by = "nuke" /\ gate.evidence = "none") =>
    /\ pc \notin {"nuke_close", "nuke_kill", "nuke_wipe", "nuke_mkdir",
                  "nuke_exit", "exited"}
    /\ ~wiped


\* C33: every reconciliation cycle in which isPrimary() returned true and a
\* peer is known compares the peers' oplog timestamps with the local one
\* before it ends (and steps down for 300 seconds when a peer's is newer).
\* (Violated: the comparison is made by bootstrap only; no cycle makes it.)
C33_StaleCheckEveryCycle ==
  (/\ pc = "rec_done"
   /\ cyc.primaryChecks = <<TRUE>>
   /\ Len(cyc.peerIPs) > 0) => gate.by = "stale"


(***************************************************************************)
(* Config version (Spec).                                                  *)
(***************************************************************************)
\* C34: every config the controller submits with replSetReconfig, in a
\* cycle or in bootstrap, has the version of the config it read plus one;
\* the version of the engine's config changes only by such a submit, and
\* then to a strictly greater one (the deletion of the data directory
\* aside, which leaves no config).
C34_VersionIsReadPlusOne ==
  /\ [](/\ cyc.submitted # NoConfig =>
             cyc.submitted.version = cyc.read.version + 1
        /\ boot.submitted # NoConfig =>
             boot.submitted.version = boot.read.version + 1)
  /\ [][ (engine'.config.version # engine.config.version
           /\ engine'.config # NoConfig) =>
           /\ pc \in {"rec_submit", "boot_heal_submit"}
           /\ engine'.config \in {cyc'.submitted, boot'.submitted}
           /\ engine'.config.version > engine.config.version
           /\ engine'.config.version = engine.config.version + 1 ]_vars

\* A cycle read a config, submitted its successor and the engine took it.
C34_Witness ==
  /\ pc = "rec_done"
  /\ cyc.submitted # NoConfig
  /\ engine.config = cyc.submitted
  /\ engine.config.version = cyc.read.version + 1


(***************************************************************************)
(* updateHostsFile (SpecHosts).                                            *)
(***************************************************************************)
\* C35: an update of /etc/hosts by bootstrap or by a cycle leaves every
\* existing line as it is and in place, and each line it appends is
\* '<ip> <hostname of ip>' for a hostname the file did not hold before;
\* at every moment no hostname is on two lines, and updating the file
\* twice with the same peer list gives the same file as updating it once.
C35_HostsFileAppendOnlyIdempotent ==
  /\ [](/\ \A i, j \in 1..Len(hostsFile.lines) :
             i # j => hostsFile.lines[i].name # hostsFile.lines[j].name
        /\ \A resp \in HostsRegistryResponses :
             hostsFile.pc \in {"bootstrap", "loop"} =>
               \E peerIPs \in {fetchPeerIPs(resp, hostsFile.myIP)} :
                 updateHostsFile(updateHostsFile(hostsFile.lines, peerIPs), peerIPs)
                   = updateHostsFile(hostsFile.lines, peerIPs))
  /\ [][ /\ Len(hostsFile'.lines) >= Len(hostsFile.lines)
         /\ SubSeq(hostsFile'.lines, 1, Len(hostsFile.lines)) = hostsFile.lines
         /\ hostsFile.pc \in {"bootstrap", "loop"} =>
              \A i \in (Len(hostsFile.lines) + 1)..Len(hostsFile'.lines) :
                /\ hostsFile'.lines[i].name = HostnameOf(hostsFile'.lines[i].ip)
                /\ hostsFile'.lines[i].ip # hostsFile.myIP
                /\ ~HostsInclude(SubSeq(hostsFile'.lines, 1, i - 1),
                                 hostsFile'.lines[i].name) ]_vars

\* The loop has appended lines for two peers already, and a peer list
\* naming them again leaves the file as it is.
C35_Witness ==
  /\ hostsFile.pc = "loop"
  /\ Len(hostsFile.lines) >= 3
  /\ \E resp \in HostsRegistryResponses :
       /\ Len(fetchPeerIPs(resp, hostsFile.myIP)) >= 2
       /\ updateHostsFile(hostsFile.lines, fetchPeerIPs(resp, hostsFile.myIP))
            = hostsFile.lines


(***************************************************************************)
(* The loop (SpecLoopFair).                                                *)
(***************************************************************************)
\* The positions of reconciliationLoop and of what it calls.
LoopPositions ==
  {"loop", "rec_isPrimary", "rec_fetchAll", "rec_consensus", "sb_stepDown",
   "sb_rejoin", "rec_getConfig", "rec_submit", "rec_mismatch", "rec_done",
   "nuke_gate", "nuke_close", "nuke_kill", "nuke_wipe", "nuke_mkdir",
   "nuke_exit"}

C38_NothingReopensAfterNuclearClose ==
  AfterNuclearClose => mongoClient = "null" /\ ~api.afterClose

\* C39: every configuration reconcileReplicaSet submits has pairwise
\* distinct member _ids and pairwise distinct member hosts, whatever the
\* registry answered.
C39_SubmittedMembersDistinct ==
  cyc.submitted # NoConfig =>
    \A i, j \in 1..Len(cyc.submitted.members) :
      i # j => /\ cyc.submitted.members[i]._id # cyc.submitted.members[j]._id
               /\ cyc.submitted.members[i].host # cyc.submitted.members[j].host

\* The entries of primaryVotes whose count reaches the majority threshold
\* of the cycle.
HostsAtThreshold ==
  {i \in 1..Len(cyc.votes) :
     cyc.votes[i].count >= majorityThreshold(cyc.totalKnownNodes)}

\* C40: in one consensus check at most one host reaches floor(N/2)+1 votes,
\* and when the registry reports two nodes no host reaches it, so consensus
\* declares no split-brain in a two-node cluster.
C40_MajorityIsUniqueAndNoneOfTwo ==
  cyc.consensusRan =>
    /\ Cardinality(HostsAtThreshold) <= 1
    /\ cyc.totalKnownNodes = 2 => HostsAtThreshold = {} /\ ~cyc.splitBrain

====
